---- MODULE Spec2Model ----
(***************************************************************************)
(* Model of the seeMUD auto-mapper (internal/mapper): the room graph, the  *)
(* pending movement, the OnMovement / OnRoomEntered operations and the     *)
(* persistence operations SaveMap, LoadMap, ExportMap and ImportMap.       *)
(*                                                                         *)
(* Text is modelled as tuples of one-character strings, so that the        *)
(* concatenation and the 100-character truncation of GenerateRoomID are    *)
(* computed as the code computes them.  The empty tuple << >> is Go's      *)
(* empty string "" wherever a room id is expected (unexplored exit, no     *)
(* current room).  Direction tokens are TLA+ strings.                      *)
(*                                                                         *)
(* Every operation holds Mapper.mutex from its first to its last statement *)
(* (mapper.go 75-76, 163-164), so each is one atomic action here.          *)
(* The variable last records the latest call and, for OnRoomEntered, the   *)
(* mapper's fields as they were when the call began; the properties        *)
(* compare that record with the state the call left.                       *)
(***************************************************************************)
EXTENDS Integers, Sequences, FiniteSets, TLC

VARIABLES
    Graph,           \* Mapper.Graph: [Rooms: id -> Room, Exits: Seq(Exit)]
    CurrentRoomID,   \* Mapper.CurrentRoomID
    PreviousRoomID,  \* Mapper.PreviousRoomID
    LastDirection,   \* Mapper.LastDirection ("" = no pending movement)
    clock,           \* number of OnRoomEntered calls so far; stands for time.Now()
    last,            \* the last call: operation, arguments, result, state before it
    env,             \* which caller drives the mapper: "walk", "compass", "persist"
    disk,            \* the files: path -> content, with who wrote it and from what
    fileOps,         \* number of SaveMap/LoadMap/ExportMap/ImportMap calls so far
    panicked,        \* a call ended in a Go panic (nil dereference)
    mutex,           \* Mapper.mutex: [readers: number of read locks, writer: held for writing]
    saver,           \* the goroutine inside SaveMap: its position and its file
    app,             \* App: currentRoom, currentItems, currentMobs, position of processOutput
    watch,           \* the polling reader: its position, what its calls returned
    client,          \* telnet.Client: outputChan, the lines read, the lines consumed
    enter            \* the goroutine inside OnRoomEntered: its position, its writes

\* the variables the mapper's own operations never touch
others == <<mutex, saver, app, watch, client, enter>>

vars == <<Graph, CurrentRoomID, PreviousRoomID, LastDirection, clock, last, env,
          disk, fileOps, panicked, mutex, saver, app, watch, client, enter>>

----------------------------------------------------------------------------
(* Bounds and inputs *)

\* OnRoomEntered is called at most MaxCalls times in a walk, and once less in
\* a compass session (whose vocabulary is seven times larger).
MaxCalls == 3

Budget(e) == IF e = "compass" THEN MaxCalls - 1 ELSE MaxCalls

\* SaveMap, LoadMap, ExportMap, ImportMap and SetGraph are called at most
\* MaxFileOps times in a run.
MaxFileOps == 2

\* processOutput takes at most MaxLines lines in an app session, and one
\* less in a parse session (whose lines are many more).
MaxLines == 3

LineBudget(e) == IF e = "parse" THEN MaxLines - 1 ELSE MaxLines

\* Connect succeeds at most MaxConnects times in a session of the connection,
\* Disconnect is called at most MaxDisconnects times and SendCommand at most
\* MaxCommands times.
MaxConnects == 2
MaxDisconnects == 2
MaxCommands == 2

\* the reader of the graph reads it at most MaxReads times in a session.
MaxReads == 2

\* readLoop reads at most MaxServerLines lines in a telnet session.
MaxServerLines == 102

Rep(c, n) == [i \in 1..n |-> c]

NoID == << >>

Tavern == <<"T", "a", "v">>
Market == <<"M", "k", "t">>

DescShort == <<"B", "u", "s", "y">>
\* two descriptions of 101 characters that agree on their first 100
DescLongA == Rep("x", 100) \o <<"1">>
DescLongB == Rep("x", 100) \o <<"2">>

\* the (name, description) texts the server shows
RoomTexts(e) ==
    CASE e = "walk" ->
           {<<Tavern, DescShort>>, <<Tavern, DescLongA>>, <<Tavern, DescLongB>>,
            <<Market, DescShort>>}
      [] OTHER -> {<<Tavern, DescShort>>, <<Market, DescShort>>}

\* the exits argument of OnRoomEntered
ExitLists(e) ==
    CASE e = "walk" -> {<< >>, <<"North", "east">>}
      [] e = "compass" -> {<<"south">>}
      [] OTHER -> {<<"North">>}

\* the direction argument of OnMovement: a few tokens (one capitalised, one
\* outside the vocabulary) for the walk, the whole vocabulary for the compass
MoveTokens(e) ==
    CASE e = "walk" -> {"West", "n", "xyzzy"}
      [] e = "compass" ->
           {"n", "north", "s", "south", "e", "east", "w", "west",
            "ne", "northeast", "nw", "northwest", "se", "southeast",
            "sw", "southwest", "u", "up", "d", "down", "N", "West"}
      [] OTHER -> {"n"}

----------------------------------------------------------------------------
(* Direction tables *)

\* strings.ToLower on the tokens of the model
ToLower(s) ==
    CASE s = "N" -> "n"
      [] s = "North" -> "north"
      [] s = "NORTH" -> "north"
      [] s = "West" -> "west"
      [] s = "XYZZY" -> "xyzzy"
      [] OTHER -> s

DirectionOffsets ==
    [d \in {"n", "north"} |-> <<0, 1, 0>>] @@
    [d \in {"s", "south"} |-> <<0, -1, 0>>] @@
    [d \in {"e", "east"} |-> <<1, 0, 0>>] @@
    [d \in {"w", "west"} |-> <<-1, 0, 0>>] @@
    [d \in {"ne", "northeast"} |-> <<1, 1, 0>>] @@
    [d \in {"nw", "northwest"} |-> <<-1, 1, 0>>] @@
    [d \in {"se", "southeast"} |-> <<1, -1, 0>>] @@
    [d \in {"sw", "southwest"} |-> <<-1, -1, 0>>] @@
    [d \in {"u", "up"} |-> <<0, 0, 1>>] @@
    [d \in {"d", "down"} |-> <<0, 0, -1>>]

OppositeDirection ==
    ("n" :> "s") @@ ("north" :> "south") @@ ("s" :> "n") @@ ("south" :> "north") @@
    ("e" :> "w") @@ ("east" :> "west") @@ ("w" :> "e") @@ ("west" :> "east") @@
    ("ne" :> "sw") @@ ("northeast" :> "southwest") @@
    ("nw" :> "se") @@ ("northwest" :> "southeast") @@
    ("se" :> "nw") @@ ("southeast" :> "northwest") @@
    ("sw" :> "ne") @@ ("southwest" :> "northeast") @@
    ("u" :> "d") @@ ("up" :> "down") @@ ("d" :> "u") @@ ("down" :> "up")

\* OppositeDirection[dir] of a Go map: "" for a missing key
Opposite(dir) == IF dir \in DOMAIN OppositeDirection THEN OppositeDirection[dir] ELSE ""

----------------------------------------------------------------------------
(* graph.go *)

NewRoomGraph == [Rooms |-> << >>, Exits |-> << >>]

\* a nil *RoomGraph
NilGraph == [Rooms |-> << >>, Exits |-> << >>, Nil |-> TRUE]

\* m.Graph == nil
IsNil(g) == "Nil" \in DOMAIN g

\* g.Rooms == nil: a graph decoded from a document without "rooms"
HasNilRooms(g) == "NilRooms" \in DOMAIN g

\* m.Graph cannot take a room: a nil graph, or a nil Rooms map
Unusable(g) == IsNil(g) \/ HasNilRooms(g)

\* sha256 of the bytes, first 16 bytes in hex: modelled collision-free, the
\* digest of a byte string being the tagged byte string itself
Sha256Hex16(bytes) == <<"#">> \o bytes

\* GenerateRoomID that also hashes whether the mapper has a current room
GenerateRoomIDByPosition(name, description) ==
    LET desc == IF Len(description) > 100 THEN SubSeq(description, 1, 100)
                ELSE description
    IN  Sha256Hex16(name \o <<"|">> \o desc \o
                    (IF CurrentRoomID = NoID THEN << >> ELSE <<"@">>))

\* GenerateRoomID that hashes the whole description
GenerateRoomIDWholeText(name, description) ==
    Sha256Hex16(name \o <<"|">> \o description)

GenerateRoomID(name, description) ==
    LET desc == IF Len(description) > 100 THEN SubSeq(description, 1, 100)
                ELSE description
    IN  Sha256Hex16(name \o <<"|">> \o desc)

\* g.Rooms[id] != nil
HasRoom(g, id) == id \in DOMAIN g.Rooms

\* AddRoom with the visit counter of a known room left as it was
AddRoomNoCount(g, room, now) ==
    IF HasRoom(g, room.ID)
    THEN [g EXCEPT !.Rooms[room.ID].Visited = now]
    ELSE [g EXCEPT !.Rooms = (room.ID :> [room EXCEPT !.Visited = now, !.VisitCount = 1])
                             @@ g.Rooms]

\* AddRoom(room) at time now: update of an existing record, or insertion
AddRoom(g, room, now) ==
    IF HasRoom(g, room.ID)
    THEN LET existing == g.Rooms[room.ID]
             merged == [d \in DOMAIN existing.Exits \cup DOMAIN room.Exits |->
                          IF d \in DOMAIN existing.Exits THEN existing.Exits[d]
                          ELSE room.Exits[d]]
         IN  [g EXCEPT !.Rooms[room.ID] =
                 [existing EXCEPT !.Visited = now,
                                  !.VisitCount = existing.VisitCount + 1,
                                  !.Description = room.Description,
                                  !.Exits = merged]]
    ELSE [g EXCEPT !.Rooms = (room.ID :> [room EXCEPT !.Visited = now, !.VisitCount = 1])
                             @@ g.Rooms]

\* AddExit: update the first entry with this (from, direction), else append
AddExit(g, from, direction, to) ==
    LET hits == {i \in 1..Len(g.Exits) :
                    g.Exits[i].From = from /\ g.Exits[i].Direction = direction}
    IN  IF hits # {}
        THEN LET i == CHOOSE k \in hits : \A j \in hits : k <= j
             IN  [g EXCEPT !.Exits[i].To = to]
        ELSE [g EXCEPT !.Exits = Append(g.Exits,
                 [From |-> from, Direction |-> direction, To |-> to])]

\* FindRoomAt(x, y, z) != nil
Occupied(g, x, y, z) ==
    \E id \in DOMAIN g.Rooms :
        g.Rooms[id].X = x /\ g.Rooms[id].Y = y /\ g.Rooms[id].Z = z

----------------------------------------------------------------------------
(* mapper.go *)

\* exits[strings.ToLower(dir)] = target on a room's exit map
SetExit(exits, dir, target) ==
    [d \in DOMAIN exits \cup {dir} |-> IF d = dir THEN target ELSE exits[d]]

linkRooms(g, fromID, direction, toID) ==
    IF ~HasRoom(g, fromID) \/ ~HasRoom(g, toID) THEN g
    ELSE
      LET normalizedDir == ToLower(direction)
          g1 == [g EXCEPT !.Rooms[fromID].Exits = SetExit(@, normalizedDir, toID)]
          g2 == AddExit(g1, fromID, normalizedDir, toID)
          reverseDir == Opposite(normalizedDir)
      IN  IF reverseDir # ""
          THEN AddExit([g2 EXCEPT !.Rooms[toID].Exits = SetExit(@, reverseDir, fromID)],
                       toID, reverseDir, fromID)
          ELSE g2

\* NewRoomCoords with the offset looked up without strings.ToLower
NewRoomCoordsCaseSensitive(g, cur, dir) ==
    IF cur # NoID /\ dir # "" /\ HasRoom(g, cur)
    THEN LET prevRoom == g.Rooms[cur]
             c == IF dir \in DOMAIN DirectionOffsets
                  THEN <<prevRoom.X + DirectionOffsets[dir][1],
                         prevRoom.Y + DirectionOffsets[dir][2],
                         prevRoom.Z + DirectionOffsets[dir][3]>>
                  ELSE <<prevRoom.X + 1, prevRoom.Y, prevRoom.Z>>
         IN  IF Occupied(g, c[1], c[2], c[3]) THEN <<c[1] + 1, c[2], c[3]>> ELSE c
    ELSE <<0, 0, 0>>

\* coordinates of a new room (mapper.go 102-128)
NewRoomCoords(g, cur, dir) ==
    IF cur # NoID /\ dir # "" /\ HasRoom(g, cur)
    THEN LET prevRoom == g.Rooms[cur]
             lower == ToLower(dir)
             c == IF lower \in DOMAIN DirectionOffsets
                  THEN <<prevRoom.X + DirectionOffsets[lower][1],
                         prevRoom.Y + DirectionOffsets[lower][2],
                         prevRoom.Z + DirectionOffsets[lower][3]>>
                  ELSE <<prevRoom.X + 1, prevRoom.Y, prevRoom.Z>>
         IN  IF Occupied(g, c[1], c[2], c[3]) THEN <<c[1] + 1, c[2], c[3]>> ELSE c
    ELSE <<0, 0, 0>>

\* the exit map of a new room: every given exit, lower-cased, unexplored
NewRoomExits(exits) ==
    [d \in {ToLower(exits[i]) : i \in 1..Len(exits)} |-> NoID]

\* LastDirection left as it is by OnRoomEntered
KeepDirection == LastDirection

\* m.LastDirection = "" at the end of OnRoomEntered ("Reset after use")
ResetDirection == ""

\* PreviousRoomID left as it is by OnRoomEntered
KeepPrevious == PreviousRoomID

\* m.PreviousRoomID = m.CurrentRoomID in both branches of OnRoomEntered
AdvancePrevious == CurrentRoomID

\* the state before an OnRoomEntered call, as recorded in last.pre
NoSnapshot == [Graph |-> NewRoomGraph, CurrentRoomID |-> NoID,
               PreviousRoomID |-> NoID, LastDirection |-> ""]

Snapshot == [Graph |-> Graph, CurrentRoomID |-> CurrentRoomID,
             PreviousRoomID |-> PreviousRoomID, LastDirection |-> LastDirection]

OnRoomEntered(name, description, exits) ==
    LET roomID == GenerateRoomID(name, description)
        now == clock + 1
    IN  /\ clock < Budget(env)
        /\ clock' = now
        /\ UNCHANGED <<env, others, disk, fileOps>>
        \* m.Graph.GetRoom on a nil graph, g.Rooms[room.ID] = room on a nil map
        /\ panicked' = Unusable(Graph)
        /\ last' = [op |-> "OnRoomEntered", name |-> name, description |-> description,
                    exits |-> exits,
                    direction |-> IF last.op = "OnMovement" THEN last.direction ELSE "",
                    overwrote |-> last.op = "OnMovement" /\ last.overwrote,
                    ret |-> roomID,
                    before |-> last.ret,
                    repeat |-> /\ last.op = "OnRoomEntered"
                               /\ last.name = name
                               /\ last.description = description
                               /\ last.exits = exits,
                    pre |-> Snapshot]
        /\ IF Unusable(Graph)
           THEN UNCHANGED <<Graph, CurrentRoomID, PreviousRoomID, LastDirection>>
           ELSE
             /\ LastDirection' = ResetDirection
             /\ CurrentRoomID' = roomID
             /\ PreviousRoomID' = AdvancePrevious
             /\ IF HasRoom(Graph, roomID)
                THEN \* known room: PreviousRoomID is already the room just left
                     LET g1 == AddRoom(Graph, Graph.Rooms[roomID], now)
                     IN  Graph' = IF CurrentRoomID # NoID /\ LastDirection # ""
                                  THEN linkRooms(g1, CurrentRoomID, LastDirection, roomID)
                                  ELSE g1
                ELSE \* new room: linkRooms runs before the pointers advance
                     LET c == NewRoomCoords(Graph, CurrentRoomID, LastDirection)
                         newRoom == [ID |-> roomID, Name |-> name, Description |-> description,
                                     X |-> c[1], Y |-> c[2], Z |-> c[3],
                                     Exits |-> NewRoomExits(exits),
                                     ImagePath |-> "", Visited |-> 0, VisitCount |-> 0,
                                     Uncertain |-> FALSE, Notes |-> ""]
                         g1 == AddRoom(Graph, newRoom, now)
                     IN  Graph' = IF PreviousRoomID # NoID /\ LastDirection # ""
                                  THEN linkRooms(g1, PreviousRoomID, LastDirection, roomID)
                                  ELSE g1

\* OnMovement that keeps a movement that is still pending
OnMovementFirstWins(direction) ==
    /\ LastDirection' = IF LastDirection = "" THEN direction ELSE LastDirection
    /\ last' = [op |-> "OnMovement", name |-> NoID, description |-> NoID,
                exits |-> << >>, direction |-> direction,
                overwrote |-> LastDirection # "" /\ LastDirection # direction,
                ret |-> NoID,
                before |-> NoID, repeat |-> FALSE, pre |-> NoSnapshot]
    /\ UNCHANGED <<Graph, CurrentRoomID, PreviousRoomID, clock, env, others,
                   disk, fileOps, panicked>>

OnMovement(direction) ==
    /\ LastDirection' = direction
    /\ last' = [op |-> "OnMovement", name |-> NoID, description |-> NoID,
                exits |-> << >>, direction |-> direction,
                overwrote |-> LastDirection # "" /\ LastDirection # direction,
                ret |-> NoID,
                before |-> NoID, repeat |-> FALSE, pre |-> NoSnapshot]
    /\ UNCHANGED <<Graph, CurrentRoomID, PreviousRoomID, clock, env, others,
                   disk, fileOps, panicked>>

----------------------------------------------------------------------------
(* Persistence: SaveMap, LoadMap, ExportMap, ImportMap.                    *)
(* A file holds either a JSON document, written here as a record with the  *)
(* json field names of MapData, RoomGraph, Room and Exit, or bytes that    *)
(* json.Unmarshal rejects.  A nil *RoomGraph is the value NilGraph and a   *)
(* JSON null the value JSONNull.                                           *)

MapVersion == "1.0"

MapCacheDir == <<"c", "a", "c", "h", "e", "/", "m", "a", "p", "s">>

DefaultMapFile == <<"d", "e", "f", "a", "u", "l", "t", ".", "j", "s", "o", "n">>

DotJSON == <<".", "j", "s", "o", "n">>

\* the characters sanitiseFilename keeps
SafeChars ==
    {"a", "b", "c", "d", "e", "f", "g", "h", "i", "j", "k", "l", "m",
     "n", "o", "p", "q", "r", "s", "t", "u", "v", "w", "x", "y", "z",
     "A", "B", "C", "D", "E", "F", "G", "H", "I", "J", "K", "L", "M",
     "N", "O", "P", "Q", "R", "S", "T", "U", "V", "W", "X", "Y", "Z",
     "0", "1", "2", "3", "4", "5", "6", "7", "8", "9", "_", "-"}

IsSafeChar(r) == r \in SafeChars

sanitiseFilename(name) == SelectSeq(name, IsSafeChar)

\* the path SaveMap and LoadMap derive from a server name
MapFilePath(serverName) ==
    LET safe == sanitiseFilename(serverName)
        filename == IF safe = << >> THEN DefaultMapFile ELSE safe \o DotJSON
    IN  MapCacheDir \o <<"/">> \o filename

JSONNull == [null |-> TRUE]

IsNull(j) == "null" \in DOMAIN j

\* MarshalRoom with the "y" field left out
MarshalRoomWithoutY(r) ==
    [id |-> r.ID, name |-> r.Name, description |-> r.Description,
     x |-> r.X, z |-> r.Z, exits |-> r.Exits, image_path |-> r.ImagePath,
     visited |-> r.Visited, visit_count |-> r.VisitCount,
     uncertain |-> r.Uncertain, notes |-> r.Notes]

\* json.Marshal of a Room, by its json tags
MarshalRoom(r) ==
    [id |-> r.ID, name |-> r.Name, description |-> r.Description,
     x |-> r.X, y |-> r.Y, z |-> r.Z, exits |-> r.Exits, image_path |-> r.ImagePath,
     visited |-> r.Visited, visit_count |-> r.VisitCount,
     uncertain |-> r.Uncertain, notes |-> r.Notes]

MarshalExit(e) == [from |-> e.From, direction |-> e.Direction, to |-> e.To]

MarshalGraph(g) ==
    IF IsNil(g) THEN JSONNull
    ELSE IF HasNilRooms(g)
    THEN \* "rooms": null, which decodes as a document without "rooms" does
         [exits |-> [i \in 1..Len(g.Exits) |-> MarshalExit(g.Exits[i])]]
    ELSE [rooms |-> [id \in DOMAIN g.Rooms |-> MarshalRoom(g.Rooms[id])],
          exits |-> [i \in 1..Len(g.Exits) |-> MarshalExit(g.Exits[i])]]

\* json.MarshalIndent of the MapData that SaveMap and ExportMap build
MarshalMapData(serverName, g, cur) ==
    [version |-> MapVersion, server_name |-> serverName,
     graph |-> MarshalGraph(g), current_room_id |-> cur]

\* a field of a JSON object, or the Go zero value when the key is absent
Field(j, key, zero) == IF key \in DOMAIN j THEN j[key] ELSE zero

UnmarshalRoom(j) ==
    [ID |-> Field(j, "id", NoID), Name |-> Field(j, "name", << >>),
     Description |-> Field(j, "description", << >>),
     X |-> Field(j, "x", 0), Y |-> Field(j, "y", 0), Z |-> Field(j, "z", 0),
     Exits |-> Field(j, "exits", << >>), ImagePath |-> Field(j, "image_path", ""),
     Visited |-> Field(j, "visited", 0), VisitCount |-> Field(j, "visit_count", 0),
     Uncertain |-> Field(j, "uncertain", FALSE), Notes |-> Field(j, "notes", "")]

UnmarshalExit(j) ==
    [From |-> Field(j, "from", NoID), Direction |-> Field(j, "direction", ""),
     To |-> Field(j, "to", NoID)]

UnmarshalGraph(j) ==
    IF IsNull(j) THEN NilGraph
    ELSE LET rooms == Field(j, "rooms", << >>)
             exits == Field(j, "exits", << >>)
             Exits == [i \in 1..Len(exits) |-> UnmarshalExit(exits[i])]
         IN  IF "rooms" \notin DOMAIN j
             THEN [Rooms |-> << >>, Exits |-> Exits, NilRooms |-> TRUE]
             ELSE [Rooms |-> [id \in DOMAIN rooms |-> UnmarshalRoom(rooms[id])],
                   Exits |-> Exits]

\* json.Unmarshal into a MapData
UnmarshalMapData(j) ==
    [Version |-> Field(j, "version", ""), ServerName |-> Field(j, "server_name", << >>),
     Graph |-> UnmarshalGraph(Field(j, "graph", JSONNull)),
     CurrentRoomID |-> Field(j, "current_room_id", NoID)]

\* what a read finds at a path
NoFile == [kind |-> "missing"]

ReadFile(d, path) == IF path \in DOMAIN d THEN d[path] ELSE NoFile

\* os.WriteFile: the path holds the new content
WriteFile(d, path, file) ==
    [q \in DOMAIN d \cup {path} |-> IF q = path THEN file ELSE d[q]]

\* the record of a file operation in last: the path it used, what it found
\* there, whether it returned an error, the mapper's fields before it
FileCall(op, serverName, path, found, err) ==
    [op |-> op, serverName |-> serverName, path |-> path, found |-> found, err |-> err,
     name |-> NoID, description |-> NoID, exits |-> << >>, direction |-> "",
     overwrote |-> FALSE, ret |-> NoID, before |-> NoID, repeat |-> FALSE,
     pre |-> Snapshot]

\* the file SaveMap and ExportMap write; origin and snap record who wrote it
\* and the mapper's fields at that moment
MapFile(serverName, origin) ==
    [kind |-> "json", doc |-> MarshalMapData(serverName, Graph, CurrentRoomID),
     origin |-> origin, snap |-> Snapshot]

SaveMap(serverName) ==
    LET path == MapFilePath(serverName)
    IN  /\ fileOps < MaxFileOps
        /\ fileOps' = fileOps + 1
        /\ disk' = WriteFile(disk, path, MapFile(serverName, "SaveMap"))
        /\ last' = FileCall("SaveMap", serverName, path, "", FALSE)
        \* m.Graph.GetRoomCount() in the log line
        /\ panicked' = IsNil(Graph)
        /\ UNCHANGED <<Graph, CurrentRoomID, PreviousRoomID, LastDirection, clock, env, others>>

ExportMap(path, serverName) ==
    /\ fileOps < MaxFileOps
    /\ fileOps' = fileOps + 1
    /\ disk' = WriteFile(disk, path, MapFile(serverName, "ExportMap"))
    /\ last' = FileCall("ExportMap", serverName, path, "", FALSE)
    /\ UNCHANGED <<Graph, CurrentRoomID, PreviousRoomID, LastDirection, clock, env, others,
                   panicked>>

\* LoadMap that starts from an empty graph when it finds no usable file
LoadOutcomeResetting(file, g, cur) ==
    IF file.kind = "json"
    THEN LET mapData == UnmarshalMapData(file.doc)
         IN  [Graph |-> mapData.Graph, CurrentRoomID |-> mapData.CurrentRoomID,
              err |-> FALSE, panic |-> IsNil(mapData.Graph)]
    ELSE [Graph |-> NewRoomGraph, CurrentRoomID |-> NoID,
          err |-> file.kind = "garbage", panic |-> FALSE]

\* what LoadMap does with the file it finds: the new Graph and CurrentRoomID,
\* whether it returns an error, whether it panics
LoadOutcome(file, g, cur) ==
    CASE file.kind = "missing" ->
           [Graph |-> g, CurrentRoomID |-> cur, err |-> FALSE, panic |-> FALSE]
      [] file.kind = "garbage" ->
           [Graph |-> g, CurrentRoomID |-> cur, err |-> TRUE, panic |-> FALSE]
      [] OTHER ->
           LET mapData == UnmarshalMapData(file.doc)
           IN  \* len(m.Graph.Rooms) in the log line dereferences m.Graph
               [Graph |-> mapData.Graph, CurrentRoomID |-> mapData.CurrentRoomID,
                err |-> FALSE, panic |-> IsNil(mapData.Graph)]

LoadMap(serverName) ==
    LET path == MapFilePath(serverName)
        file == ReadFile(disk, path)
        out == LoadOutcome(file, Graph, CurrentRoomID)
    IN  /\ fileOps < MaxFileOps
        /\ fileOps' = fileOps + 1
        /\ Graph' = out.Graph
        /\ CurrentRoomID' = out.CurrentRoomID
        /\ panicked' = out.panic
        /\ last' = FileCall("LoadMap", serverName, path, file.kind, out.err)
        /\ UNCHANGED <<PreviousRoomID, LastDirection, clock, env, others, disk>>

\* the room merge of ImportMap with the imported record winning
MergeRoomsOverwriting(g, rooms) ==
    [g EXCEPT !.Rooms = [id \in DOMAIN g.Rooms \cup DOMAIN rooms |->
                            IF id \in DOMAIN rooms THEN rooms[id] ELSE g.Rooms[id]]]

\* the room merge of ImportMap with a known room moved to the imported
\* coordinates
MergeRoomsRepositioning(g, rooms) ==
    [g EXCEPT !.Rooms = [id \in DOMAIN g.Rooms \cup DOMAIN rooms |->
                            IF id \in DOMAIN g.Rooms
                            THEN IF id \in DOMAIN rooms
                                 THEN [g.Rooms[id] EXCEPT !.X = rooms[id].X,
                                                          !.Y = rooms[id].Y,
                                                          !.Z = rooms[id].Z]
                                 ELSE g.Rooms[id]
                            ELSE rooms[id]]]

\* the room merge of ImportMap with the imported rooms replacing the graph's
MergeRoomsReplacing(g, rooms) == [g EXCEPT !.Rooms = rooms]

\* the room loop of ImportMap: a room is taken only if its id is new
MergeRooms(g, rooms) ==
    [g EXCEPT !.Rooms = [id \in DOMAIN g.Rooms \cup DOMAIN rooms |->
                            IF id \in DOMAIN g.Rooms THEN g.Rooms[id] ELSE rooms[id]]]

\* the exit loop of ImportMap: AddExit for every imported exit, in order
RECURSIVE ImportExits(_, _)
ImportExits(g, exits) ==
    IF exits = << >> THEN g
    ELSE ImportExits(AddExit(g, Head(exits).From, Head(exits).Direction, Head(exits).To),
                     Tail(exits))

\* what ImportMap does with the file it finds
ImportOutcome(file, g) ==
    IF file.kind # "json"
    THEN [Graph |-> g, err |-> TRUE, panic |-> FALSE]
    ELSE LET mapData == UnmarshalMapData(file.doc)
             own == IF IsNil(g) THEN NewRoomGraph ELSE g
         IN  IF IsNil(mapData.Graph)
             THEN \* mapData.Graph.Rooms dereferences the nil graph
                  [Graph |-> own, err |-> FALSE, panic |-> TRUE]
             ELSE IF HasNilRooms(own) /\ mapData.Graph.Rooms # << >>
             THEN \* m.Graph.Rooms[id] = room assigns into a nil map
                  [Graph |-> own, err |-> FALSE, panic |-> TRUE]
             ELSE [Graph |-> ImportExits(MergeRooms(own, mapData.Graph.Rooms),
                                         mapData.Graph.Exits),
                   err |-> FALSE, panic |-> FALSE]

ImportMap(path) ==
    LET file == ReadFile(disk, path)
        out == ImportOutcome(file, Graph)
    IN  /\ fileOps < MaxFileOps
        /\ fileOps' = fileOps + 1
        /\ Graph' = out.Graph
        /\ panicked' = out.panic
        /\ last' = FileCall("ImportMap", << >>, path, file.kind, out.err)
        /\ UNCHANGED <<CurrentRoomID, PreviousRoomID, LastDirection, clock, env, others, disk>>

\* SetGraph(graph): the graph is replaced, the pointers stay; the log line
\* reads len(graph.Rooms)
SetGraph(graph) ==
    /\ fileOps < MaxFileOps
    /\ fileOps' = fileOps + 1
    /\ Graph' = graph
    /\ panicked' = IsNil(graph)
    /\ last' = FileCall("SetGraph", << >>, << >>, "", FALSE)
    /\ UNCHANGED <<CurrentRoomID, PreviousRoomID, LastDirection, clock, env, others, disk>>

----------------------------------------------------------------------------
(* SaveMap step by step, with Mapper.mutex.  OnRoomEntered, OnMovement,    *)
(* LoadMap and ImportMap take the write lock for their whole body, so they *)
(* run, as one action, only when nobody holds the mutex.                   *)

NoLock == [readers |-> 0, writer |-> FALSE]

\* m.mutex.Lock() would return at once
Unlocked == mutex.readers = 0 /\ ~mutex.writer

IdleSaver == [pc |-> "idle", serverName |-> << >>, file |-> NoFile]

\* m.mutex.RLock(), then the MapData and its JSON text are built
SaveMapRLock(serverName) ==
    /\ fileOps < MaxFileOps
    /\ saver.pc = "idle"
    /\ ~mutex.writer
    /\ mutex' = [mutex EXCEPT !.readers = @ + 1]
    /\ saver' = [pc |-> "locked", serverName |-> serverName,
                 file |-> MapFile(serverName, "SaveMap")]
    /\ UNCHANGED <<Graph, CurrentRoomID, PreviousRoomID, LastDirection, clock, last, env,
                   disk, fileOps, panicked, app, watch, client, enter>>

\* os.WriteFile
SaveMapWrite ==
    /\ saver.pc = "locked"
    /\ disk' = WriteFile(disk, MapFilePath(saver.serverName), saver.file)
    /\ saver' = [saver EXCEPT !.pc = "written"]
    /\ UNCHANGED <<Graph, CurrentRoomID, PreviousRoomID, LastDirection, clock, last, env,
                   fileOps, panicked, mutex, app, watch, client, enter>>

\* the log line and the deferred m.mutex.RUnlock()
SaveMapRUnlock ==
    /\ saver.pc = "written"
    /\ mutex' = [mutex EXCEPT !.readers = @ - 1]
    /\ saver' = IdleSaver
    /\ fileOps' = fileOps + 1
    /\ last' = FileCall("SaveMap", saver.serverName, MapFilePath(saver.serverName),
                        "", FALSE)
    /\ panicked' = IsNil(Graph)
    /\ UNCHANGED <<Graph, CurrentRoomID, PreviousRoomID, LastDirection, clock, env,
                   disk, app, watch, client, enter>>

----------------------------------------------------------------------------
(* OnRoomEntered write by write, beside a reader of GetGraph.  GetGraph    *)
(* returns the pointer m.Graph under the read lock; the reader then reads  *)
(* the graph through that pointer with no lock held.                       *)

\* the graph after each write of linkRooms, in order
LinkWrites(g, fromID, direction, toID) ==
    IF ~HasRoom(g, fromID) \/ ~HasRoom(g, toID) THEN << >>
    ELSE
      LET normalizedDir == ToLower(direction)
          g1 == [g EXCEPT !.Rooms[fromID].Exits = SetExit(@, normalizedDir, toID)]
          g2 == AddExit(g1, fromID, normalizedDir, toID)
          reverseDir == Opposite(normalizedDir)
          g3 == [g2 EXCEPT !.Rooms[toID].Exits = SetExit(@, reverseDir, fromID)]
          g4 == AddExit(g3, toID, reverseDir, fromID)
      IN  IF reverseDir # "" THEN <<g1, g2, g3, g4>> ELSE <<g1, g2>>

\* the graph after each write OnRoomEntered makes to it, in order: AddRoom,
\* then the writes of linkRooms
GraphWrites(g, cur, prev, dir, name, description, exits, now) ==
    LET roomID == GenerateRoomID(name, description)
    IN  IF HasRoom(g, roomID)
        THEN LET g1 == AddRoom(g, g.Rooms[roomID], now)
             IN  <<g1>> \o (IF cur # NoID /\ dir # ""
                            THEN LinkWrites(g1, cur, dir, roomID) ELSE << >>)
        ELSE LET c == NewRoomCoords(g, cur, dir)
                 newRoom == [ID |-> roomID, Name |-> name, Description |-> description,
                             X |-> c[1], Y |-> c[2], Z |-> c[3],
                             Exits |-> NewRoomExits(exits),
                             ImagePath |-> "", Visited |-> 0, VisitCount |-> 0,
                             Uncertain |-> FALSE, Notes |-> ""]
                 g1 == AddRoom(g, newRoom, now)
             IN  <<g1>> \o (IF prev # NoID /\ dir # ""
                            THEN LinkWrites(g1, prev, dir, roomID) ELSE << >>)

NotEntering == [pc |-> "idle", writes |-> << >>, done |-> 0, before |-> NewRoomGraph,
                name |-> NoID, description |-> NoID, exits |-> << >>]

\* m.mutex.Lock() at the start of OnRoomEntered
EnterLock(name, description, exits) ==
    /\ clock < Budget(env)
    /\ enter.pc = "idle"
    /\ Unlocked
    /\ mutex' = [mutex EXCEPT !.writer = TRUE]
    /\ enter' = [pc |-> "writing",
                 writes |-> GraphWrites(Graph, CurrentRoomID, PreviousRoomID, LastDirection,
                                        name, description, exits, clock + 1),
                 done |-> 0, before |-> Graph,
                 name |-> name, description |-> description, exits |-> exits]
    /\ UNCHANGED <<Graph, CurrentRoomID, PreviousRoomID, LastDirection, clock, last, env,
                   disk, fileOps, panicked, saver, app, watch, client>>

\* the next write of OnRoomEntered to the graph
EnterWrite ==
    /\ enter.pc = "writing"
    /\ enter.done < Len(enter.writes)
    /\ Graph' = enter.writes[enter.done + 1]
    /\ enter' = [enter EXCEPT !.done = @ + 1]
    /\ UNCHANGED <<CurrentRoomID, PreviousRoomID, LastDirection, clock, last, env,
                   disk, fileOps, panicked, mutex, saver, app, watch, client>>

\* the pointers advance, the pending movement is cleared, the deferred
\* m.mutex.Unlock() runs
EnterUnlock ==
    /\ enter.pc = "writing"
    /\ enter.done = Len(enter.writes)
    /\ CurrentRoomID' = GenerateRoomID(enter.name, enter.description)
    /\ PreviousRoomID' = AdvancePrevious
    /\ LastDirection' = ResetDirection
    /\ clock' = clock + 1
    /\ last' = [op |-> "OnRoomEntered", name |-> enter.name,
                description |-> enter.description, exits |-> enter.exits,
                direction |-> IF last.op = "OnMovement" THEN last.direction ELSE "",
                overwrote |-> last.op = "OnMovement" /\ last.overwrote,
                ret |-> GenerateRoomID(enter.name, enter.description),
                before |-> last.ret, repeat |-> FALSE,
                pre |-> [Snapshot EXCEPT !.Graph = enter.before]]
    /\ mutex' = [mutex EXCEPT !.writer = FALSE]
    /\ enter' = NotEntering
    /\ UNCHANGED <<Graph, env, disk, fileOps, panicked, saver, app, watch, client>>

\* the reader of the graph: whether it holds the pointer GetGraph returned,
\* what its latest read through the pointer found, and the graph as it was
\* before and as it is after the OnRoomEntered call in progress at that read
NoView == [holds |-> FALSE, reads |-> 0, seen |-> NewRoomGraph,
           before |-> NewRoomGraph, after |-> NewRoomGraph]

\* GetGraph: the pointer is returned under the read lock
GetGraph ==
    /\ ~mutex.writer
    /\ ~watch.holds
    /\ watch' = [watch EXCEPT !.holds = TRUE]
    /\ UNCHANGED <<Graph, CurrentRoomID, PreviousRoomID, LastDirection, clock, last, env,
                   disk, fileOps, panicked, mutex, saver, app, client, enter>>

\* the reader reads the graph through the pointer, no lock held
ReadGraph ==
    /\ watch.holds
    /\ watch.reads < MaxReads
    /\ watch' = [watch EXCEPT
                    !.reads = @ + 1,
                    !.seen = Graph,
                    !.before = IF enter.pc = "idle" THEN Graph ELSE enter.before,
                    !.after = IF enter.pc = "idle" \/ enter.writes = << >> THEN Graph
                              ELSE enter.writes[Len(enter.writes)]]
    /\ UNCHANGED <<Graph, CurrentRoomID, PreviousRoomID, LastDirection, clock, last, env,
                   disk, fileOps, panicked, mutex, saver, app, client, enter>>

----------------------------------------------------------------------------
(* The files of a persist session *)

\* the server name the session saves and exports under
ServerName == <<"w", ".", "m">>

\* the server names given to LoadMap
ServerNames == {ServerName, << >>}

\* the path given to ExportMap and ImportMap
SharePath == <<"s", ".", "j", "s", "o", "n">>

Cellar == <<"C", "l", "r">>

TavernID == GenerateRoomID(Tavern, DescShort)
MarketID == GenerateRoomID(Market, DescShort)
CellarID == GenerateRoomID(Cellar, DescShort)

\* a map exported by somebody else with an older version: it has its own
\* record for the Tavern, a room this mapper never sees, and exits that
\* start at this mapper's rooms
ForeignDoc ==
    [version |-> "0.9", server_name |-> <<"x">>,
     graph |->
       [rooms |->
          (TavernID :> [id |-> TavernID, name |-> <<"I", "n", "n">>,
                        description |-> DescLongA, x |-> 7, y |-> 7, z |-> 7,
                        exits |-> ("n" :> CellarID), image_path |-> "inn.png",
                        visited |-> 9, visit_count |-> 9, uncertain |-> TRUE,
                        notes |-> "theirs"]) @@
          (CellarID :> [id |-> CellarID, name |-> Cellar,
                        description |-> DescShort, x |-> 0, y |-> 0, z |-> 0,
                        exits |-> ("s" :> TavernID), image_path |-> "",
                        visited |-> 9, visit_count |-> 1, uncertain |-> FALSE,
                        notes |-> ""]),
        exits |-> <<[from |-> TavernID, direction |-> "n", to |-> CellarID],
                    [from |-> MarketID, direction |-> "n", to |-> NoID],
                    [from |-> CellarID, direction |-> "s", to |-> TavernID]>>],
     current_room_id |-> CellarID]

\* a document without a graph
GraphlessDoc ==
    [version |-> MapVersion, server_name |-> <<"x">>, graph |-> JSONNull,
     current_room_id |-> NoID]

\* a document whose graph has no "rooms"
RoomlessDoc ==
    [version |-> MapVersion, server_name |-> <<"x">>, graph |-> [exits |-> << >>],
     current_room_id |-> NoID]

\* the graphs handed to SetGraph: a fresh one, none, one decoded elsewhere
SetGraphs == {NewRoomGraph, NilGraph, UnmarshalMapData(ForeignDoc).Graph}

Foreign(doc) == [kind |-> "json", doc |-> doc, origin |-> "foreign", snap |-> NoSnapshot]

Garbage == [kind |-> "garbage"]

\* the disk when the session starts: nothing for a walk or a compass session;
\* for a reload session a damaged default map file and, as the server's map
\* file, a foreign map, a document without a graph or one without rooms;
\* for a persist session a damaged default map file and, at the share path,
\* nothing, a foreign map or a document without a graph
InitialDisks(e) ==
    IF e = "reload"
    THEN {(MapFilePath(<< >>) :> Garbage) @@ (MapFilePath(ServerName) :> Foreign(doc)) :
             doc \in {ForeignDoc, GraphlessDoc, RoomlessDoc}}
    ELSE IF e # "persist" THEN {<< >>}
    ELSE LET cache == MapFilePath(<< >>) :> Garbage
         IN  {cache} \cup
             {cache @@ (SharePath :> f) :
                 f \in {Foreign(ForeignDoc), Foreign(GraphlessDoc)}}

----------------------------------------------------------------------------
(* Line classifier (internal/parser/wolfmud.go).  A line is a tuple of     *)
(* one-character strings; the byte 0x1b is the element "ESC".  A line     *)
(* holds no line feed: readLoop cuts the stream at "\n".                   *)

\* \s of the regular expressions on a line; strings.TrimSpace and
\* strings.Fields cut at the same characters on the lines of the model
Space == {" ", "\t", "\r", "\f"}

Digits == {"0", "1", "2", "3", "4", "5", "6", "7", "8", "9"}

Lower == <<"a", "b", "c", "d", "e", "f", "g", "h", "i", "j", "k", "l", "m",
           "n", "o", "p", "q", "r", "s", "t", "u", "v", "w", "x", "y", "z">>

Upper == <<"A", "B", "C", "D", "E", "F", "G", "H", "I", "J", "K", "L", "M",
           "N", "O", "P", "Q", "R", "S", "T", "U", "V", "W", "X", "Y", "Z">>

Letters == {Lower[i] : i \in 1..26} \cup {Upper[i] : i \in 1..26}

\* strings.ToLower on one character
LowerChar(c) ==
    IF \E i \in 1..26 : Upper[i] = c
    THEN Lower[CHOOSE i \in 1..26 : Upper[i] = c]
    ELSE c

\* strings.ToLower on a word
LowerWord(w) == [i \in 1..Len(w) |-> LowerChar(w[i])]

HasPrefix(t, p) == Len(t) >= Len(p) /\ SubSeq(t, 1, Len(p)) = p

\* p occurs in t at index i
At(t, i, p) == i >= 1 /\ i + Len(p) - 1 <= Len(t) /\ SubSeq(t, i, i + Len(p) - 1) = p

Contains(t, p) == \E i \in 1..Len(t) : At(t, i, p)

\* the largest index of R, or 0
MaxOr0(R) == IF R = {} THEN 0 ELSE CHOOSE k \in R : \A j \in R : j <= k

\* the smallest index of R, or otherwise
MinOr(R, otherwise) == IF R = {} THEN otherwise ELSE CHOOSE k \in R : \A j \in R : k <= j

\* strings.TrimSpace
TrimSpace(t) ==
    LET solid == {i \in 1..Len(t) : t[i] \notin Space}
    IN  IF solid = {} THEN << >> ELSE SubSeq(t, MinOr(solid, 1), MaxOr0(solid))

\* the element of the set of indices R with n elements of R below it
Nth(R, n) == CHOOSE k \in R : Cardinality({j \in R : j < k}) = n

\* strings.Split(t, sep) for a one-character separator: the pieces between
\* one separator (or the start) and the next (or the end)
Split(t, sep) ==
    LET cuts == {0} \cup {i \in 1..Len(t) : t[i] = sep} \cup {Len(t) + 1}
    IN  [n \in 1..(Cardinality(cuts) - 1) |->
            SubSeq(t, Nth(cuts, n - 1) + 1, Nth(cuts, n) - 1)]

\* strings.Fields: the maximal runs of non-space characters
Fields(t) ==
    LET starts == {i \in 1..Len(t) : t[i] \notin Space /\ (i = 1 \/ t[i - 1] \in Space)}
    IN  [n \in 1..Cardinality(starts) |->
            SubSeq(t, Nth(starts, n - 1),
                   MinOr({j \in Nth(starts, n - 1)..Len(t) : t[j] \in Space},
                         Len(t) + 1) - 1)]

\* strings.Join(words, " ")
RECURSIVE JoinWords(_)
JoinWords(words) ==
    IF words = << >> THEN << >>
    ELSE IF Len(words) = 1 THEN words[1]
    ELSE words[1] \o <<" ">> \o JoinWords(Tail(words))

\* the index after the run of characters of set S that starts at i
RunEnd(t, i, S) == MinOr({j \in i..Len(t) : t[j] \notin S}, Len(t) + 1)

\* the length of the match of one of stripColorCodes' expressions at index
\* i of t, or 0:
\*   "color"  \x1b\[[0-9;]*m            "ansi"  \x1b\[[0-9;]*[a-zA-Z]
\*   "cursor" \x1b\[[0-9]+;[0-9]+[HfABCDEFGJKST]
\*   "esc"    \x1b[78]                  "clear" \x1b\[2J
MatchLen(kind, t, i) ==
    CASE kind \in {"color", "ansi"} ->
           IF At(t, i, <<"ESC", "[">>)
           THEN LET j == RunEnd(t, i + 2, Digits \cup {";"})
                    finals == IF kind = "color" THEN {"m"} ELSE Letters
                IN  IF j <= Len(t) /\ t[j] \in finals THEN j - i + 1 ELSE 0
           ELSE 0
      [] kind = "cursor" ->
           IF At(t, i, <<"ESC", "[">>)
           THEN LET j == RunEnd(t, i + 2, Digits)
                    k == RunEnd(t, j + 1, Digits)
                IN  IF /\ j > i + 2 /\ j <= Len(t) /\ t[j] = ";"
                       /\ k > j + 1 /\ k <= Len(t)
                       /\ t[k] \in {"H", "f", "A", "B", "C", "D", "E", "F", "G", "J",
                                    "K", "S", "T"}
                    THEN k - i + 1 ELSE 0
           ELSE 0
      [] kind = "esc" ->
           IF At(t, i, <<"ESC", "7">>) \/ At(t, i, <<"ESC", "8">>) THEN 2 ELSE 0
      [] OTHER -> IF At(t, i, <<"ESC", "[", "2", "J">>) THEN 4 ELSE 0

\* Regexp.ReplaceAllString(t, "") from index i on: the leftmost match at or
\* after i is removed and the search goes on behind it
RECURSIVE RemoveFrom(_, _, _)
RemoveFrom(kind, t, i) ==
    CHOOSE rest \in
       {IF next = 0 THEN SubSeq(t, i, Len(t))
        ELSE SubSeq(t, i, next - 1)
                \o RemoveFrom(kind, t, next + MatchLen(kind, t, next)) :
           next \in {MinOr({j \in i..Len(t) : MatchLen(kind, t, j) > 0}, 0)}} : TRUE

RemoveAll(kind, t) == CHOOSE cleaned \in {RemoveFrom(kind, s, 1) : s \in {t}} : TRUE

stripColorCodes(text) ==
    RemoveAll("clear", RemoveAll("esc", RemoveAll("cursor",
        RemoveAll("ansi", RemoveAll("color", text)))))

\* promptRegex ^[\[<].*[\]>]\s*$
IsPrompt(t) ==
    /\ Len(t) >= 2
    /\ t[1] \in {"[", "<"}
    /\ \E k \in 2..Len(t) :
          /\ t[k] \in {"]", ">"}
          /\ \A j \in (k + 1)..Len(t) : t[j] \in Space

\* the text after "Exit:" or "Exits:" at the start of t
AfterExitMarker(t) ==
    IF HasPrefix(t, <<"E", "x", "i", "t", "s", ":">>) THEN SubSeq(t, 7, Len(t))
    ELSE SubSeq(t, 6, Len(t))

\* exitRegex ^Exits?:\s*(.+)$ matches
IsExits(t) ==
    /\ HasPrefix(t, <<"E", "x", "i", "t", "s", ":">>) \/ HasPrefix(t, <<"E", "x", "i", "t", ":">>)
    /\ AfterExitMarker(t) # << >>

\* matches[1]: \s* takes all the white space it can while one character is
\* left for (.+)
ExitsGroup(t) ==
    LET rest == AfterExitMarker(t)
        start == MinOr({i \in 1..Len(rest) : rest[i] \notin Space}, Len(rest))
    IN  SubSeq(rest, start, Len(rest))

NonEmpty(token) == token # << >>

\* parseExits without the trimming
parseExitsUntrimmed(exitStr) == SelectSeq(Split(exitStr, ","), NonEmpty)

parseExits(exitStr) ==
    LET exits == Split(exitStr, ",")
    IN  SelectSeq([i \in 1..Len(exits) |-> TrimSpace(exits[i])], NonEmpty)

Articles == {<<"A">>, <<"A", "n">>, <<"T", "h", "e">>}

Verbs ==
    {<<"i", "s">>, <<"a", "r", "e">>,
     <<"s", "i", "t">>, <<"s", "i", "t", "s">>,
     <<"l", "i", "e">>, <<"l", "i", "e", "s">>,
     <<"s", "t", "a", "n", "d">>, <<"s", "t", "a", "n", "d", "s">>,
     <<"r", "e", "s", "t">>, <<"r", "e", "s", "t", "s">>}

\* inventoryRegex ^(A|An|The)\s+.*\s+(is|are|sits?|lies?|stands?|rests?)\s+.*\.$
IsInventory(t) ==
    /\ Len(t) >= 1 /\ t[Len(t)] = "."
    /\ \E a \in Articles, v \in Verbs :
          /\ HasPrefix(t, a)
          /\ Len(t) > Len(a) /\ t[Len(a) + 1] \in Space
          /\ \E p \in (Len(a) + 3)..Len(t) :
                /\ t[p - 1] \in Space
                /\ At(t, p, v)
                /\ p + Len(v) < Len(t)
                /\ t[p + Len(v)] \in Space

ItemVerbs == {<<"i", "s">>, <<"a", "r", "e">>, <<"s", "i", "t", "s">>, <<"l", "i", "e", "s">>, <<"s", "t", "a", "n", "d", "s">>, <<"r", "e", "s", "t", "s">>}

ItemArticles == {<<"a">>, <<"a", "n">>, <<"t", "h", "e">>}

\* the loop of extractItemName from word i on: the item name, or << >> when
\* the loop ends without one; start is the index after the last article
RECURSIVE ItemScan(_, _, _)
ItemScan(words, i, start) ==
    IF i > Len(words) THEN [name |-> << >>, start |-> start]
    ELSE LET lower == LowerWord(words[i])
         IN  IF lower \in ItemArticles THEN ItemScan(words, i + 1, i + 1)
             ELSE IF lower \in ItemVerbs
                  THEN IF i > start
                       THEN [name |-> JoinWords(SubSeq(words, start, i - 1)),
                             start |-> start]
                       ELSE [name |-> << >>, start |-> start]
                  ELSE ItemScan(words, i + 1, start)

\* the number of words the fallback of extractItemName takes
ItemNameWords == 3

extractItemName(line) ==
    LET words == Fields(line)
        scan == ItemScan(words, 1, 1)
    IN  IF Len(words) < 2 THEN line
        ELSE IF scan.name # << >> THEN scan.name
        ELSE IF scan.start <= Len(words)
             THEN LET end == IF scan.start - 1 + ItemNameWords > Len(words)
                             THEN Len(words) ELSE scan.start - 1 + ItemNameWords
                  IN  JoinWords(SubSeq(words, scan.start, end))
             ELSE line

\* the longest line isRoomTitle accepts
MaxTitleLen == 50

isRoomTitle(line) ==
    LET t == TrimSpace(line)
    IN  /\ Len(line) <= MaxTitleLen
        /\ t # << >>
        /\ t[Len(t)] \notin {".", "!", "?"}
        /\ ~Contains(t, <<".", " ">>)

systemPrefixes ==
    {<<"Y", "o", "u", " ", "c", "a", "n", "'", "t">>,
     <<"Y", "o", "u", " ", "d", "o", "n", "'", "t">>,
     <<"Y", "o", "u", " ", "a", "r", "e", "n", "'", "t">>,
     <<"Y", "o", "u", " ", "a", "r", "e">>,
     <<"Y", "o", "u", " ", "h", "a", "v", "e">>,
     <<"Y", "o", "u", " ", "s", "e", "e">>,
     <<"T", "h", "e", "r", "e", " ", "i", "s">>,
     <<"T", "h", "e", "r", "e", " ", "a", "r", "e">>,
     <<"I", "t", " ", "i", "s">>,
     <<"Y", "o", "u", " ", "f", "e", "e", "l">>,
     <<"Y", "o", "u", " ", "h", "e", "a", "r">>,
     <<"Y", "o", "u", " ", "s", "m", "e", "l", "l">>}

isSystemMessage(line) == \E prefix \in systemPrefixes : HasPrefix(line, prefix)

\* a ParsedOutput of the given type
Parsed(type, line, cleaned, content, roomName, exits, items) ==
    [Type |-> type, Content |-> content, CleanText |-> cleaned, RawText |-> line,
     RoomName |-> roomName, Exits |-> exits, Items |-> items, Mobs |-> << >>,
     IsRoomEntry |-> type = "RoomTitle"]

\* ParseLine with the system-message test before the room-title test
ParseLineSystemFirst(line) ==
    CHOOSE output \in
      {IF TrimSpace(cleaned) = << >>
        THEN Parsed("Unknown", line, cleaned, << >>, << >>, << >>, << >>)
        ELSE IF IsPrompt(cleaned)
        THEN Parsed("Prompt", line, cleaned, cleaned, << >>, << >>, << >>)
        ELSE IF IsExits(cleaned)
        THEN Parsed("Exits", line, cleaned, ExitsGroup(cleaned), << >>,
                    parseExits(ExitsGroup(cleaned)), << >>)
        ELSE IF IsInventory(cleaned)
        THEN Parsed("Inventory", line, cleaned, cleaned, << >>, << >>,
                    <<extractItemName(cleaned)>>)
        ELSE IF isSystemMessage(cleaned)
        THEN Parsed("System", line, cleaned, cleaned, << >>, << >>, << >>)
        ELSE IF isRoomTitle(cleaned)
        THEN Parsed("RoomTitle", line, cleaned, cleaned, cleaned, << >>, << >>)
        ELSE Parsed("RoomDescription", line, cleaned, cleaned, << >>, << >>, << >>) :
           cleaned \in {stripColorCodes(line)}} : TRUE

ParseLine(line) ==
    CHOOSE output \in
      {IF TrimSpace(cleaned) = << >>
        THEN Parsed("Unknown", line, cleaned, << >>, << >>, << >>, << >>)
        ELSE IF IsPrompt(cleaned)
        THEN Parsed("Prompt", line, cleaned, cleaned, << >>, << >>, << >>)
        ELSE IF IsExits(cleaned)
        THEN Parsed("Exits", line, cleaned, ExitsGroup(cleaned), << >>,
                    parseExits(ExitsGroup(cleaned)), << >>)
        ELSE IF IsInventory(cleaned)
        THEN Parsed("Inventory", line, cleaned, cleaned, << >>, << >>,
                    <<extractItemName(cleaned)>>)
        ELSE IF isRoomTitle(cleaned)
        THEN Parsed("RoomTitle", line, cleaned, cleaned, cleaned, << >>, << >>)
        ELSE IF isSystemMessage(cleaned)
        THEN Parsed("System", line, cleaned, cleaned, << >>, << >>, << >>)
        ELSE Parsed("RoomDescription", line, cleaned, cleaned, << >>, << >>, << >>) :
           cleaned \in {stripColorCodes(line)}} : TRUE

----------------------------------------------------------------------------
(* The lines the server sends *)

\* 'Tavern'
LineTavern == <<"T", "a", "v", "e", "r", "n">>

\* 'Market Square'
LineMarket ==
    <<"M", "a", "r", "k", "e", "t", " ", "S", "q", "u", "a", "r", "e">>

\* 'Busy room.'
LineBusy == <<"B", "u", "s", "y", " ", "r", "o", "o", "m", ".">>

\* 'A sword lies here.'
LineSword ==
    <<"A", " ", "s", "w", "o", "r", "d", " ", "l", "i", "e", "s", " ", "h",
      "e", "r", "e", ".">>

\* '[HP 10]'
LinePrompt == <<"[", "H", "P", " ", "1", "0", "]">>

\* the lines the server sends in an app session: two titles, a description,
\* an item sentence and a prompt
AppLines == {LineTavern, LineMarket, LineBusy, LineSword, LinePrompt}

\* 'Exits: north, east'
LineExits ==
    <<"E", "x", "i", "t", "s", ":", " ", "n", "o", "r", "t", "h", ",", " ",
      "e", "a", "s", "t">>

\* 'Exits: , north ,, east ,'
LineExitsRagged ==
    <<"E", "x", "i", "t", "s", ":", " ", ",", " ", "n", "o", "r", "t", "h",
      " ", ",", ",", " ", "e", "a", "s", "t", " ", ",">>

\* 'Exits:  '
LineExitsBlank == <<"E", "x", "i", "t", "s", ":", " ", " ">>

\* 'You are hungry'
LineHungry ==
    <<"Y", "o", "u", " ", "a", "r", "e", " ", "h", "u", "n", "g", "r", "y">>

\* 'You are hungry.'
LineHungryStop ==
    <<"Y", "o", "u", " ", "a", "r", "e", " ", "h", "u", "n", "g", "r", "y",
      ".">>

\* 'ESC[31mTavernESC[0m'
LineColourTavern ==
    <<"ESC", "[", "3", "1", "m", "T", "a", "v", "e", "r", "n", "ESC", "[",
      "0", "m">>

\* 'ESC[1;32mExits: northESC[0m'
LineColourExits ==
    <<"ESC", "[", "1", ";", "3", "2", "m", "E", "x", "i", "t", "s", ":", " ",
      "n", "o", "r", "t", "h", "ESC", "[", "0", "m">>

\* 'The old man sits on a bench.'
LineOldMan ==
    <<"T", "h", "e", " ", "o", "l", "d", " ", "m", "a", "n", " ", "s", "i",
      "t", "s", " ", "o", "n", " ", "a", " ", "b", "e", "n", "c", "h", ".">>

\* a line of fifty characters and one of fifty-one
LineFifty == Rep("x", MaxTitleLen)
LineFiftyOne == Rep("x", MaxTitleLen + 1)

\* a line with a system-message prefix that is too long for a title
LineLongSystem == <<"Y", "o", "u", " ", "a", "r", "e", " ">> \o LineFifty

\* the lines of a parse session: every kind, lines that pass several tests,
\* and near misses of each test
ParseLines ==
    AppLines \cup
    {LineExits, LineExitsRagged, LineExitsBlank, LineHungry, LineHungryStop,
     LineColourTavern, LineColourExits, LineOldMan, LineFifty, LineFiftyOne,
     LineLongSystem,
     << >>,
     <<" ", " ", " ">>,
     <<"<", "2", "0", "h", "p", ">", " ">>,
     <<"[", " ", "x">>,
     <<"E", "x", "i", "t", ":", " ", "n">>,
     <<"E", "x", "i", "t", "s", ":">>,
     <<"E", "x", "i", "t", "s", ":", " ", "n", "o", "r", "t", "h", ",", "\t",
       "e", "a", "s", "t">>,
     <<"e", "x", "i", "t", "s", ":", " ", "n", "o", "r", "t", "h">>,
     <<"A", " ", " ", "i", "s", " ", "h", "e", "r", "e", ".">>,
     <<"A", " ", "i", "s", " ", "h", "e", "r", "e", ".">>,
     <<"A", "n", "o", "t", "h", "e", "r", " ", "s", "w", "o", "r", "d", " ",
       "i", "s", " ", "h", "e", "r", "e", ".">>,
     <<"A", " ", "s", "w", "o", "r", "d", " ", "i", "s", " ", "h", "e", "r",
       "e">>,
     <<"I", "t", " ", "i", "s", " ", "d", "a", "r", "k", ".">>,
     <<"A", " ", "b", "u", "s", "y", " ", "r", "o", "o", "m", ".", " ", "W",
       "i", "t", "h", " ", "p", "e", "o", "p", "l", "e">>,
     <<"ESC", "[", "2", "J">>}

\* the lines that arrive on the output channel
Lines(e) == IF e = "parse" THEN ParseLines ELSE AppLines

----------------------------------------------------------------------------
(* App (app.go): processOutput and the polling getters.  For a RoomTitle  *)
(* line processOutput has two critical sections, one under roomMux and    *)
(* one under entityMux; app.pc = "clear" is the point between them.       *)

\* a.currentRoom == nil
NilRoom == [Type |-> "nil"]

\* the lines outputBuf keeps
OutputBufCap == 1000

NewApp == [currentRoom |-> NilRoom, currentItems |-> << >>, currentMobs |-> << >>,
           outputBuf |-> << >>, pc |-> "recv"]

\* what the polling reader got from its latest GetCurrentRoom and
\* GetCurrentEntities calls; roomTitles is the number of RoomTitle lines
\* processOutput had taken when GetCurrentRoom was called
NewWatch == [room |-> << >>, roomTitles |-> 0,
             entities |-> [items |-> << >>, mobs |-> << >>]]

\* the bookkeeping of the stream in last: the lines taken so far, the
\* RoomTitle lines among them, and since the latest RoomTitle line the
\* description texts, the item and mob mentions, and the mentions that came
\* while a room was open
NoLine ==
    [op |-> "none", line |-> << >>, parsed |-> NilRoom, pre |-> NewApp,
     received |-> 0, titles |-> 0, descs |-> << >>,
     items |-> << >>, mobs |-> << >>, roomItems |-> << >>, roomMobs |-> << >>]

AppEnvs == {"app", "parse"}

\* the buffer append of processOutput
AppendOutput(buf, line) ==
    LET b == Append(buf, line)
    IN  IF Len(b) > OutputBufCap THEN Tail(b) ELSE b

\* the RoomDescription branch with a description opening an aggregate when
\* none is open
AppendDescriptionAlways(room, parsed) ==
    IF room # NilRoom /\ room.Type = "RoomTitle"
    THEN [room EXCEPT !.Content = @ \o <<" ">> \o parsed.Content]
    ELSE [parsed EXCEPT !.Type = "RoomTitle"]

\* the RoomDescription branch of processOutput
AppendDescription(room, parsed) ==
    IF room # NilRoom /\ room.Type = "RoomTitle"
    THEN [room EXCEPT !.Content = @ \o <<" ">> \o parsed.Content]
    ELSE room

\* the RoomTitle branch of processOutput, under roomMux
SwitchRoom(room, parsed) == parsed

\* a.mudParser.ParseLine on each line of the sessions, worked out once
ParsedLines == [line \in ParseLines |-> ParseLine(line)]

\* one line taken from the output channel, up to the end of the critical
\* section its kind leads to
processOutput(line) ==
    LET parsed == ParsedLines[line]
        buf == AppendOutput(app.outputBuf, line)
        isTitle == parsed.Type = "RoomTitle"
        open == last.titles > 0
    IN  /\ app.pc = "recv"
        /\ last.received < LineBudget(env)
        /\ app' =
             CASE isTitle ->
                    [app EXCEPT !.outputBuf = buf,
                                !.currentRoom = SwitchRoom(app.currentRoom, parsed),
                                !.pc = "clear"]
               [] parsed.Type = "RoomDescription" ->
                    [app EXCEPT !.outputBuf = buf,
                                !.currentRoom = AppendDescription(app.currentRoom, parsed)]
               [] parsed.Type = "Inventory" /\ Len(parsed.Items) > 0 ->
                    [app EXCEPT !.outputBuf = buf,
                                !.currentItems = @ \o parsed.Items]
               [] parsed.Type = "Mobs" /\ Len(parsed.Mobs) > 0 ->
                    [app EXCEPT !.outputBuf = buf,
                                !.currentMobs = @ \o parsed.Mobs]
               [] OTHER -> [app EXCEPT !.outputBuf = buf]
        /\ last' =
             [op |-> "processOutput", line |-> line, parsed |-> parsed, pre |-> app,
              received |-> last.received + 1,
              titles |-> IF isTitle THEN last.titles + 1 ELSE last.titles,
              descs |-> IF isTitle THEN << >>
                        ELSE IF parsed.Type = "RoomDescription" /\ open
                             THEN Append(last.descs, parsed.Content)
                             ELSE last.descs,
              items |-> IF isTitle THEN << >> ELSE last.items \o parsed.Items,
              mobs |-> IF isTitle THEN << >> ELSE last.mobs \o parsed.Mobs,
              roomItems |-> IF isTitle \/ ~open THEN << >>
                            ELSE last.roomItems \o parsed.Items,
              roomMobs |-> IF isTitle \/ ~open THEN << >>
                           ELSE last.roomMobs \o parsed.Mobs]
        /\ UNCHANGED <<Graph, CurrentRoomID, PreviousRoomID, LastDirection, clock, env,
                       disk, fileOps, panicked, mutex, saver, watch, client, enter>>

\* the second critical section of a RoomTitle line, under entityMux
ClearEntities ==
    /\ app.pc = "clear"
    /\ app' = [app EXCEPT !.currentItems = << >>, !.currentMobs = << >>, !.pc = "recv"]
    /\ last' = [last EXCEPT !.op = "ClearEntities", !.pre = app]
    /\ UNCHANGED <<Graph, CurrentRoomID, PreviousRoomID, LastDirection, clock, env,
                   disk, fileOps, panicked, mutex, saver, watch, client, enter>>

\* the map GetCurrentRoom returns
CurrentRoomMap(a) ==
    IF a.currentRoom = NilRoom \/ a.currentRoom.Type # "RoomTitle" THEN << >>
    ELSE [name |-> a.currentRoom.RoomName, description |-> a.currentRoom.Content]

\* the map GetCurrentEntities returns
CurrentEntitiesMap(a) == [items |-> a.currentItems, mobs |-> a.currentMobs]

GetCurrentRoom ==
    /\ watch' = [watch EXCEPT !.room = CurrentRoomMap(app), !.roomTitles = last.titles]
    /\ last' = [last EXCEPT !.op = "GetCurrentRoom", !.pre = app]
    /\ UNCHANGED <<Graph, CurrentRoomID, PreviousRoomID, LastDirection, clock, env,
                   disk, fileOps, panicked, mutex, saver, app, client, enter>>

GetCurrentEntities ==
    /\ watch' = [watch EXCEPT !.entities = CurrentEntitiesMap(app)]
    /\ last' = [last EXCEPT !.op = "GetCurrentEntities", !.pre = app]
    /\ UNCHANGED <<Graph, CurrentRoomID, PreviousRoomID, LastDirection, clock, env,
                   disk, fileOps, panicked, mutex, saver, app, client, enter>>

----------------------------------------------------------------------------
(* telnet.Client (internal/telnet/client.go): readLoop and the output     *)
(* channel.  The server sends the lines 1, 2, 3, ...; line k is the text  *)
(* ToString(k) followed by "\r\n", except for one line that is empty.     *)

\* make(chan string, 100)
OutputChanCap == 100

\* make(chan string, 10)
InputChanCap == 10

\* outputChan, the number of lines readLoop has read, which line of the
\* stream is empty (0: none), and the lines the consumer has received;
\* connected, the number of close(closeChan) executed, the commands in
\* inputChan and the SendCommand calls made, the readLoop and writeLoop
\* goroutine of each successful Connect, the number of Disconnect calls, and
\* the latest event of the connection
NewClient == [outputChan |-> << >>, read |-> 0, blank |-> 0, taken |-> << >>,
              connected |-> FALSE, closes |-> 0, inputChan |-> 0, sent |-> 0,
              loops |-> << >>, disconnects |-> 0, event |-> "NewClient"]

\* the choices of the empty line
BlankLines == {0, 2}

\* what reader.ReadString('\n') returns for line k of the stream
ServerLine(k) ==
    IF k = client.blank THEN <<"\r", "\n">> ELSE <<ToString(k), "\r", "\n">>

\* strings.TrimRight(line, "\r\n")
TrimRight(line) ==
    SubSeq(line, 1, MaxOr0({i \in 1..Len(line) : line[i] \notin {"\r", "\n"}}))

\* the send of readLoop with the oldest line given up for the new one
SendDropOldest(ch, line) ==
    IF Len(ch) < OutputChanCap THEN Append(ch, line) ELSE Append(Tail(ch), line)

\* select { case c.outputChan <- line: default: }
Send(ch, line) ==
    IF Len(ch) < OutputChanCap THEN Append(ch, line) ELSE ch

\* the record of a step of the client in last
ClientCall(op, line) ==
    [op |-> op, line |-> line, full |-> Len(client.outputChan) = OutputChanCap,
     pre |-> client]

\* one iteration of readLoop that reads a line
readLoop ==
    LET line == TrimRight(ServerLine(client.read + 1))
    IN  /\ client.read < MaxServerLines
        /\ client' = [client EXCEPT
                         !.read = @ + 1,
                         !.outputChan = IF line # << >> THEN Send(@, line) ELSE @]
        /\ last' = ClientCall("readLoop", line)
        /\ UNCHANGED <<Graph, CurrentRoomID, PreviousRoomID, LastDirection, clock, env,
                       disk, fileOps, panicked, mutex, saver, app, watch, enter>>

\* line, ok := <-outputChan in processOutput
TakeLine ==
    /\ client.outputChan # << >>
    /\ client' = [client EXCEPT !.outputChan = Tail(@),
                                !.taken = Append(@, Head(client.outputChan))]
    /\ last' = ClientCall("TakeLine", Head(client.outputChan))
    /\ UNCHANGED <<Graph, CurrentRoomID, PreviousRoomID, LastDirection, clock, env,
                   disk, fileOps, panicked, mutex, saver, app, watch, enter>>

----------------------------------------------------------------------------
(* telnet.Client: Connect, Disconnect, SendCommand and the two goroutines *)
(* of each connection.  closeChan is made in NewClient and nowhere else;  *)
(* nothing is ever sent on it, so a receive from it is ready exactly when *)
(* it has been closed.                                                    *)

closeChanClosed == client.closes > 0

\* the variables a step of the connection leaves alone
ClientOnly ==
    UNCHANGED <<Graph, CurrentRoomID, PreviousRoomID, LastDirection, clock, last, env,
                disk, fileOps, mutex, saver, app, watch, enter>>

\* Connect with the dial succeeding or failing
Connect(dialed) ==
    /\ Len(client.loops) < MaxConnects
    /\ IF client.connected \/ ~dialed
       THEN \* "already connected", "failed to connect"
            client' = [client EXCEPT !.event = "ConnectError"]
       ELSE client' = [client EXCEPT
                         !.connected = TRUE,
                         !.loops = Append(@, [read |-> "running", write |-> "running",
                                              lost |-> FALSE]),
                         !.event = "Connect"]
    /\ UNCHANGED panicked
    /\ ClientOnly

\* Disconnect; close of a closed channel panics
Disconnect ==
    /\ client.disconnects < MaxDisconnects
    /\ IF ~client.connected
       THEN /\ client' = [client EXCEPT !.disconnects = @ + 1, !.event = "Disconnect"]
            /\ UNCHANGED panicked
       ELSE /\ client' = [client EXCEPT !.disconnects = @ + 1, !.event = "Disconnect",
                                        !.connected = FALSE, !.closes = @ + 1]
            /\ panicked' = closeChanClosed
    /\ ClientOnly

\* SendCommand
SendCommand ==
    /\ client.sent < MaxCommands
    /\ client' = [client EXCEPT
                    !.sent = @ + 1,
                    !.inputChan = IF client.connected /\ @ < InputChanCap
                                  THEN @ + 1 ELSE @]
    /\ UNCHANGED panicked
    /\ ClientOnly

\* readLoop of connection i: case <-c.closeChan: return
readLoopClosed(i) ==
    /\ client.loops[i].read = "running"
    /\ closeChanClosed
    /\ client' = [client EXCEPT !.loops[i].read = "returning"]
    /\ UNCHANGED panicked
    /\ ClientOnly

\* readLoop of connection i: ReadString fails with an error that is no
\* timeout (the server has gone, or Disconnect has closed the socket)
readLoopError(i) ==
    /\ client.loops[i].read = "running"
    /\ ~closeChanClosed
    /\ client' = [client EXCEPT !.loops[i].read = "returning",
                                !.loops[i].lost = TRUE,
                                !.event = "Lost"]
    /\ UNCHANGED panicked
    /\ ClientOnly

\* the deferred function of readLoop: connected = false under the lock
readLoopDeferred(i) ==
    /\ client.loops[i].read = "returning"
    /\ client' = [client EXCEPT !.loops[i].read = "done", !.connected = FALSE]
    /\ UNCHANGED panicked
    /\ ClientOnly

\* writeLoop of connection i: case <-c.closeChan: return
writeLoopClosed(i) ==
    /\ client.loops[i].write = "running"
    /\ closeChanClosed
    /\ client' = [client EXCEPT !.loops[i].write = "done"]
    /\ UNCHANGED panicked
    /\ ClientOnly

\* writeLoop of connection i: case command := <-c.inputChan
writeLoopCommand(i) ==
    /\ client.loops[i].write = "running"
    /\ client.inputChan > 0
    /\ client' = [client EXCEPT !.inputChan = @ - 1]
    /\ UNCHANGED panicked
    /\ ClientOnly

\* a step of one of the goroutines
LoopStep ==
    \E i \in 1..Len(client.loops) :
        \/ readLoopClosed(i)
        \/ readLoopError(i)
        \/ readLoopDeferred(i)
        \/ writeLoopClosed(i)
        \/ writeLoopCommand(i)

----------------------------------------------------------------------------

\* NewMapper(), driven by caller e
InitEnv(e) ==
    /\ env = e
    /\ Graph = NewRoomGraph
    /\ CurrentRoomID = NoID
    /\ PreviousRoomID = NoID
    /\ LastDirection = ""
    /\ clock = 0
    /\ disk \in InitialDisks(e)
    /\ fileOps = 0
    /\ panicked = FALSE
    /\ mutex = NoLock
    /\ saver = IdleSaver
    /\ app = NewApp
    /\ watch = IF e = "snapshot" THEN NoView ELSE NewWatch
    /\ enter = NotEntering
    /\ client \in {[NewClient EXCEPT !.blank = b] :
                     b \in IF e = "telnet" THEN BlankLines ELSE {0}}
    /\ last = IF e \in AppEnvs THEN NoLine
              ELSE IF e = "telnet" THEN [op |-> "none", line |-> << >>, full |-> FALSE,
                                         pre |-> NewClient]
              ELSE [op |-> "none", name |-> NoID, description |-> NoID, exits |-> << >>,
                    direction |-> "", overwrote |-> FALSE, ret |-> NoID,
                    before |-> NoID, repeat |-> FALSE, pre |-> NoSnapshot]

Init == InitEnv("walk")

InitCompass == InitEnv("compass")

Next ==
    \/ \E text \in RoomTexts(env), exits \in ExitLists(env) :
          OnRoomEntered(text[1], text[2], exits)
    \/ \E direction \in MoveTokens(env) : OnMovement(direction)

\* a session in which any of a few room texts follows any of a few commands
Spec == Init /\ [][Next]_vars

\* a session that uses every direction of the vocabulary
SpecCompass == InitCompass /\ [][Next]_vars

InitPersist == InitEnv("persist")

\* the process is alive: no call has panicked
Running == ~panicked

\* a session that also saves, loads, exports and imports; a panic ends it
NextPersist ==
    \/ \E text \in RoomTexts(env), exits \in ExitLists(env) :
          Running /\ OnRoomEntered(text[1], text[2], exits)
    \/ \E direction \in MoveTokens(env) : Running /\ OnMovement(direction)
    \/ Running /\ SaveMap(ServerName)
    \/ \E serverName \in ServerNames : Running /\ LoadMap(serverName)
    \/ Running /\ ExportMap(SharePath, ServerName)
    \/ Running /\ ImportMap(SharePath)

SpecPersist == InitPersist /\ [][NextPersist]_vars

InitReload == InitEnv("reload")

\* a session in which the graph is loaded or replaced while the player walks
NextReload ==
    \/ \E text \in RoomTexts(env), exits \in ExitLists(env) :
          Running /\ OnRoomEntered(text[1], text[2], exits)
    \/ \E direction \in MoveTokens(env) : Running /\ OnMovement(direction)
    \/ \E serverName \in ServerNames : Running /\ LoadMap(serverName)
    \/ \E graph \in SetGraphs : Running /\ SetGraph(graph)

SpecReload == InitReload /\ [][NextReload]_vars

InitSnapshot == InitEnv("snapshot")

\* a session in which a reader of the graph runs beside OnRoomEntered
NextSnapshot ==
    \/ \E text \in RoomTexts(env), exits \in ExitLists(env) :
          EnterLock(text[1], text[2], exits)
    \/ EnterWrite
    \/ EnterUnlock
    \/ \E direction \in MoveTokens(env) : Unlocked /\ OnMovement(direction)
    \/ GetGraph
    \/ ReadGraph

SpecSnapshot == InitSnapshot /\ [][NextSnapshot]_vars

InitLock == InitEnv("lock")

\* a session in which the map is saved while rooms keep arriving
NextLock ==
    \/ \E text \in RoomTexts(env), exits \in ExitLists(env) :
          Unlocked /\ OnRoomEntered(text[1], text[2], exits)
    \/ \E direction \in MoveTokens(env) : Unlocked /\ OnMovement(direction)
    \/ SaveMapRLock(ServerName)
    \/ SaveMapWrite
    \/ SaveMapRUnlock

SpecLock == InitLock /\ [][NextLock]_vars

InitApp == InitEnv("app")

\* a session of the App: processOutput beside a polling reader
NextApp ==
    \/ \E line \in Lines(env) : processOutput(line)
    \/ ClearEntities
    \/ GetCurrentRoom
    \/ GetCurrentEntities

SpecApp == InitApp /\ [][NextApp]_vars

InitParse == InitEnv("parse")

\* processOutput fed with lines of every kind
NextParse ==
    \/ \E line \in Lines(env) : processOutput(line)
    \/ ClearEntities

SpecParse == InitParse /\ [][NextParse]_vars

InitConnect == InitEnv("connect")

\* a session of one client: its callers and its goroutines
NextConnect ==
    \/ \E dialed \in BOOLEAN : Running /\ Connect(dialed)
    \/ Running /\ Disconnect
    \/ Running /\ SendCommand
    \/ \E i \in 1..Len(client.loops) : Running /\ readLoopClosed(i)
    \/ \E i \in 1..Len(client.loops) : Running /\ readLoopError(i)
    \/ \E i \in 1..Len(client.loops) : Running /\ readLoopDeferred(i)
    \/ \E i \in 1..Len(client.loops) : Running /\ writeLoopClosed(i)
    \/ \E i \in 1..Len(client.loops) : Running /\ writeLoopCommand(i)

SpecConnect == InitConnect /\ [][NextConnect]_vars

\* the scheduler runs every goroutine that can take a step; the callers of
\* Connect, Disconnect and SendCommand are free to call or not
SpecConnectFair == SpecConnect /\ WF_vars(Running /\ LoopStep)

InitTelnet == InitEnv("telnet")

\* readLoop beside the consumer of the output channel
NextTelnet == readLoop \/ TakeLine

SpecTelnet == InitTelnet /\ [][NextTelnet]_vars

----------------------------------------------------------------------------
(* Vocabulary of the properties: the last call and the state before it *)

pre == last.pre

\* the last call was OnRoomEntered; it returned last.ret
Entered == last.op = "OnRoomEntered"

\* the room it resolved to was in the graph before the call
WasKnown == HasRoom(pre.Graph, last.ret)

EnteredNew == Entered /\ ~WasKnown

\* a current room existed when the call began
HadCurrent == pre.CurrentRoomID # NoID /\ HasRoom(pre.Graph, pre.CurrentRoomID)

\* a movement was pending when the call began
Pending == pre.LastDirection # ""

\* the pending direction as the mapper normalises it
PendingDir == ToLower(pre.LastDirection)

Coords(r) == <<r.X, r.Y, r.Z>>

Plus(c, o) == <<c[1] + o[1], c[2] + o[2], c[3] + o[3]>>

\* the cell the pending movement leads to from the room that was current
Candidate ==
    Plus(Coords(pre.Graph.Rooms[pre.CurrentRoomID]),
         IF PendingDir \in DOMAIN DirectionOffsets THEN DirectionOffsets[PendingDir]
         ELSE <<1, 0, 0>>)

CandidateOccupied == Occupied(pre.Graph, Candidate[1], Candidate[2], Candidate[3])

\* the record of the room the last call returned
Resolved == Graph.Rooms[last.ret]

HasExit(g, id, dir, target) ==
    /\ HasRoom(g, id)
    /\ dir \in DOMAIN g.Rooms[id].Exits
    /\ g.Rooms[id].Exits[dir] = target

----------------------------------------------------------------------------
(* C1..C10: linking, placement, repeat sightings *)

\* C1: after an OnRoomEntered call made with a current room A and a pending
\* direction D, resolving to B (new or known), A.Exits[D] = B and, when D has
\* an opposite, B.Exits[opposite(D)] = A.
C1_BidirectionalLink ==
    (Entered /\ HadCurrent /\ Pending) =>
        /\ HasExit(Graph, pre.CurrentRoomID, PendingDir, last.ret)
        /\ Opposite(PendingDir) # "" =>
              HasExit(Graph, last.ret, Opposite(PendingDir), pre.CurrentRoomID)

\* C2: no two distinct rooms of the graph have the same (X, Y, Z).
C2_DistinctCoordinates ==
    \A a, b \in DOMAIN Graph.Rooms :
        a # b => Coords(Graph.Rooms[a]) # Coords(Graph.Rooms[b])

\* C3: when the candidate cell of a new room is occupied, every room that was
\* in the graph keeps its id, name and coordinates, and the new room is stored
\* on a cell that no room of the graph occupied.
C3_CollisionKeepsOccupant ==
    (EnteredNew /\ HadCurrent /\ Pending /\ CandidateOccupied) =>
        /\ \A id \in DOMAIN pre.Graph.Rooms :
              /\ HasRoom(Graph, id)
              /\ Graph.Rooms[id].ID = pre.Graph.Rooms[id].ID
              /\ Graph.Rooms[id].Name = pre.Graph.Rooms[id].Name
              /\ Coords(Graph.Rooms[id]) = Coords(pre.Graph.Rooms[id])
        /\ ~Occupied(pre.Graph, Resolved.X, Resolved.Y, Resolved.Z)

\* C4: a new room reached from a current room at (x,y,z) by a pending
\* direction D of DirectionOffsets (any letter case), its target cell free,
\* is stored at (x,y,z) + DirectionOffsets[D]; a compass direction moves it
\* by at most 1 in x and y and leaves z, up/down move z by 1 and leave x, y.
C4_PlacedAtOffset ==
    (EnteredNew /\ HadCurrent /\ Pending /\ PendingDir \in DOMAIN DirectionOffsets
       /\ ~CandidateOccupied) =>
        LET from == Coords(pre.Graph.Rooms[pre.CurrentRoomID])
            to == Coords(Resolved)
            dx == to[1] - from[1]
            dy == to[2] - from[2]
            dz == to[3] - from[3]
        IN  /\ to = Plus(from, DirectionOffsets[PendingDir])
            /\ IF PendingDir \in {"u", "up", "d", "down"}
               THEN dx = 0 /\ dy = 0 /\ dz \in {-1, 1}
               ELSE dz = 0 /\ dx \in {-1, 0, 1} /\ dy \in {-1, 0, 1}
                    /\ <<dx, dy>> # <<0, 0>>
            /\ PendingDir \in {"n", "north"} => <<dx, dy>> = <<0, 1>>
            /\ PendingDir \in {"w", "west"} => <<dx, dy>> = <<-1, 0>>

\* C4 witness: the capitalised token "N" placed a new room one step north.
C4_Witness ==
    /\ EnteredNew /\ HadCurrent /\ pre.LastDirection = "N" /\ ~CandidateOccupied
    /\ Coords(Resolved) = Plus(Coords(pre.Graph.Rooms[pre.CurrentRoomID]), <<0, 1, 0>>)

\* C5: a new room resolved with no current room or no pending movement is at
\* the origin only if the graph was empty, and never on the cell of a room
\* that was already in the graph; the call returns a room of the graph.
C5_FallbackPlacement ==
    (EnteredNew /\ (pre.CurrentRoomID = NoID \/ ~Pending)) =>
        /\ HasRoom(Graph, last.ret)
        /\ Coords(Resolved) = <<0, 0, 0>> => DOMAIN pre.Graph.Rooms = {}
        /\ ~Occupied(pre.Graph, Resolved.X, Resolved.Y, Resolved.Z)

\* C6: a new room placed by a fallback is flagged Uncertain: (a) no pending
\* movement or no current room in a non-empty graph, (b) a pending direction
\* outside DirectionOffsets, (c) a collision nudge.
C6_FallbackIsUncertain ==
    (/\ EnteredNew
     /\ \/ (pre.CurrentRoomID = NoID \/ ~Pending) /\ DOMAIN pre.Graph.Rooms # {}
        \/ HadCurrent /\ Pending /\ PendingDir \notin DOMAIN DirectionOffsets
        \/ HadCurrent /\ Pending /\ CandidateOccupied)
    => Resolved.Uncertain

\* C7: with a pending token outside DirectionOffsets the call still returns a
\* room of the graph, a new room goes to the current room's cell + (1,0,0)
\* when that cell is free, the forward link is made and only the reverse link
\* is skipped.
C7_UnknownTokenDegrades ==
    (Entered /\ HadCurrent /\ Pending /\ PendingDir \notin DOMAIN DirectionOffsets) =>
        /\ HasRoom(Graph, last.ret)
        /\ (~WasKnown /\ ~CandidateOccupied) => Coords(Resolved) = Candidate
        /\ HasExit(Graph, pre.CurrentRoomID, PendingDir, last.ret)
        /\ last.ret # pre.CurrentRoomID =>
              Resolved.Exits = IF WasKnown THEN pre.Graph.Rooms[last.ret].Exits
                               ELSE NewRoomExits(last.exits)

\* C8: a second OnRoomEntered with the same (name, description, exits) and no
\* OnMovement in between returns the same id, adds exactly 1 to the room's
\* VisitCount (1 then 2 when the first call created the room), creates no
\* room and leaves the room's coordinates as they were.
C8_RepeatIsIdempotent ==
    last.repeat =>
        /\ last.ret = last.before
        /\ WasKnown
        /\ Resolved.VisitCount = pre.Graph.Rooms[last.ret].VisitCount + 1
        /\ clock = 2 => pre.Graph.Rooms[last.ret].VisitCount = 1 /\ Resolved.VisitCount = 2
        /\ DOMAIN Graph.Rooms = DOMAIN pre.Graph.Rooms
        /\ Coords(Resolved) = Coords(pre.Graph.Rooms[last.ret])

\* C8 witness: the second of two identical calls, the first of which created
\* the room.
C8_Witness ==
    /\ last.repeat /\ clock = 2
    /\ last.ret = last.before
    /\ Resolved.VisitCount = 2

\* C9: on a repeat sighting of a known room the stored description is the one
\* passed in the latest call, the id being the same.
C9_LatestDescriptionWins ==
    (Entered /\ WasKnown) =>
        /\ Resolved.ID = last.ret
        /\ Resolved.Description = last.description

\* C10: on a repeat sighting every direction of the exits argument is in the
\* room's exit map afterwards (unexplored if it was not there before), and no
\* exit with a non-empty target is changed by the exits argument.
C10_ExitsMerged ==
    (Entered /\ WasKnown) =>
        LET old == pre.Graph.Rooms[last.ret].Exits
            new == Resolved.Exits
            linked == IF HadCurrent /\ Pending
                      THEN {PendingDir, Opposite(PendingDir)} ELSE {}
        IN  /\ \A d \in DOMAIN NewRoomExits(last.exits) :
                  /\ d \in DOMAIN new
                  /\ (d \notin DOMAIN old /\ d \notin linked) => new[d] = NoID
            /\ \A d \in DOMAIN old :
                  (old[d] # NoID /\ d \notin linked) =>
                      d \in DOMAIN new /\ new[d] = old[d]

----------------------------------------------------------------------------
(* C11..C15: the pending movement, room identity, the two views of exits *)

\* the exits of room id in graph g, the empty map for a room g does not hold
ExitsOf(g, id) == IF HasRoom(g, id) THEN g.Rooms[id].Exits ELSE << >>

\* the exit keys of room id that the last call added or changed
ChangedExits(id) ==
    {d \in DOMAIN ExitsOf(Graph, id) :
        d \notin DOMAIN ExitsOf(pre.Graph, id)
        \/ ExitsOf(pre.Graph, id)[d] # ExitsOf(Graph, id)[d]}

\* C11: after every OnRoomEntered call LastDirection is empty, and a call
\* that finds no pending movement changes no exit of a room that was in the
\* graph nor the edge list: a movement acts on one resolution at most.
C11_MovementConsumedOnce ==
    Entered =>
        /\ LastDirection = ""
        /\ ~Pending =>
              /\ Graph.Exits = pre.Graph.Exits
              /\ \A id \in DOMAIN pre.Graph.Rooms : ChangedExits(id) = {}

\* C11 witness: a call that used a pending movement to link two known rooms
\* and left none pending.
C11_Witness ==
    /\ Entered /\ WasKnown /\ HadCurrent /\ Pending
    /\ HasExit(Graph, pre.CurrentRoomID, PendingDir, last.ret)
    /\ LastDirection = ""

\* C12: when OnMovement(d2) overwrote a pending OnMovement(d1), the next
\* OnRoomEntered sees d2 as the pending direction: a new room is placed by
\* d2's offset, a known room is linked under d2, and every exit the call
\* writes into a room that existed has key d2 or opposite(d2).
C12_NewestMovementWins ==
    (last.op = "OnMovement" => LastDirection = last.direction)
    /\ ((Entered /\ last.overwrote) =>
          LET d == ToLower(last.direction)
              step == IF d \in DOMAIN DirectionOffsets THEN DirectionOffsets[d]
                      ELSE <<1, 0, 0>>
          IN  /\ pre.LastDirection = last.direction
              /\ (~WasKnown /\ HadCurrent) =>
                    LET c == Plus(Coords(pre.Graph.Rooms[pre.CurrentRoomID]), step)
                    IN  Coords(Resolved) \in {c, Plus(c, <<1, 0, 0>>)}
              /\ (WasKnown /\ HadCurrent) =>
                    HasExit(Graph, pre.CurrentRoomID, d, last.ret)
              /\ \A id \in DOMAIN pre.Graph.Rooms :
                    ChangedExits(id) \subseteq {d, Opposite(d)})

\* C12 witness: "West" was pending, "n" overwrote it, and the new room was
\* placed one step north of the current room.
C12_Witness ==
    /\ EnteredNew /\ HadCurrent /\ last.overwrote /\ last.direction = "n"
    /\ Coords(Resolved) = Plus(Coords(pre.Graph.Rooms[pre.CurrentRoomID]), <<0, 1, 0>>)

\* the first n characters of a text
Take(text, n) == IF Len(text) > n THEN SubSeq(text, 1, n) ELSE text

\* C13: the id OnRoomEntered returns is a function of the name and the first
\* 100 characters of the description alone, whatever the mapper's history,
\* and it is the key and the ID of the room's record.
C13_IdFromTextOnly ==
    Entered =>
        /\ last.ret = <<"#">> \o last.name \o <<"|">> \o Take(last.description, 100)
        /\ HasRoom(Graph, last.ret)
        /\ Resolved.ID = last.ret
        /\ Resolved.Name = last.name
        /\ Take(Resolved.Description, 100) = Take(last.description, 100)

\* C13 witness: the third call of a mapper with a current room and a pending
\* movement returns for (Tavern, DescLongB) the id of the room first seen as
\* (Tavern, DescLongA).
C13_Witness ==
    /\ Entered /\ clock = 3 /\ Pending /\ HadCurrent
    /\ last.name = Tavern /\ last.description = DescLongB
    /\ Resolved.Description = DescLongA

\* C14: a resolution whose name equals, and whose description agrees in its
\* first 100 characters with, those of a room of the graph creates no room,
\* returns that room's id and adds 1 to its VisitCount, also when it is
\* reached by a movement from another room.
C14_SameTextSameRoom ==
    Entered =>
        \A id \in DOMAIN pre.Graph.Rooms :
            (/\ pre.Graph.Rooms[id].Name = last.name
             /\ Take(pre.Graph.Rooms[id].Description, 100) = Take(last.description, 100))
            => /\ last.ret = id
               /\ DOMAIN Graph.Rooms = DOMAIN pre.Graph.Rooms
               /\ Graph.Rooms[id].VisitCount = pre.Graph.Rooms[id].VisitCount + 1

\* C14 witness: (Tavern, DescLongB) entered by a movement from another room
\* resolved to the room stored with DescLongA, now visited twice.
C14_Witness ==
    /\ Entered /\ WasKnown /\ Pending /\ HadCurrent
    /\ pre.CurrentRoomID # last.ret
    /\ last.description = DescLongB
    /\ Resolved.Description = DescLongA
    /\ Resolved.VisitCount = 2

\* the entries of the edge list for (from, direction)
Edges(g, from, dir) ==
    {i \in 1..Len(g.Exits) : g.Exits[i].From = from /\ g.Exits[i].Direction = dir}

\* C15: the edge list and the exit maps are the same relation: every exit
\* r.Exits[d] = t has exactly one edge (r, d, t), and every edge is an exit.
C15_ViewsConsistent ==
    /\ \A id \in DOMAIN Graph.Rooms : \A d \in DOMAIN Graph.Rooms[id].Exits :
          /\ Cardinality(Edges(Graph, id, d)) = 1
          /\ \A i \in Edges(Graph, id, d) : Graph.Exits[i].To = Graph.Rooms[id].Exits[d]
    /\ \A i \in 1..Len(Graph.Exits) :
          HasExit(Graph, Graph.Exits[i].From, Graph.Exits[i].Direction, Graph.Exits[i].To)

----------------------------------------------------------------------------
(* C16..C20: persistence *)

\* the last call was LoadMap and found a file written by SaveMap
LoadedSave ==
    /\ last.op = "LoadMap"
    /\ last.found = "json"
    /\ disk[last.path].origin = "SaveMap"

\* the mapper's fields when the file just loaded was saved
saved == disk[last.path].snap

\* the last call was ImportMap and could decode the file
Imported == last.op = "ImportMap" /\ last.found = "json"

\* the rooms of the file just imported
ImportedRooms == UnmarshalMapData(disk[last.path].doc).Graph.Rooms

\* C16: room records are never deleted: a step of OnMovement, OnRoomEntered,
\* SaveMap, ExportMap or ImportMap keeps every room id that is in the graph.
C16_RoomsNeverDeleted ==
    [][last'.op \in {"OnMovement", "OnRoomEntered", "SaveMap", "ExportMap", "ImportMap"}
          => \A id \in DOMAIN Graph.Rooms : HasRoom(Graph', id)]_vars

\* an import added a room to a graph whose earlier rooms are all still there
C16_Witness ==
    /\ Imported
    /\ pre.Graph.Rooms # << >>
    /\ \A id \in DOMAIN pre.Graph.Rooms : HasRoom(Graph, id)
    /\ \E id \in DOMAIN Graph.Rooms : ~HasRoom(pre.Graph, id)

\* C17: round trip: LoadMap of a file that SaveMap wrote yields the room ids,
\* the coordinates per room and the exit map per room that the graph had
\* when it was saved.
C17_RoundTrip ==
    LoadedSave =>
        /\ DOMAIN Graph.Rooms = DOMAIN saved.Graph.Rooms
        /\ \A id \in DOMAIN saved.Graph.Rooms :
              /\ Graph.Rooms[id].ID = id
              /\ Coords(Graph.Rooms[id]) = Coords(saved.Graph.Rooms[id])
              /\ Graph.Rooms[id].Exits = saved.Graph.Rooms[id].Exits

\* a load brought back a saved graph of two rooms, one of them off the origin
\* and with an exit, after the mapper had gone on to link the two rooms
C17_Witness ==
    /\ LoadedSave
    /\ pre.Graph # saved.Graph
    /\ pre.Graph.Exits # << >>
    /\ Graph.Exits = << >>
    /\ Cardinality(DOMAIN Graph.Rooms) = 2
    /\ \E id \in DOMAIN Graph.Rooms :
          Graph.Rooms[id].Y # 0 /\ DOMAIN Graph.Rooms[id].Exits # {}

\* C18: SaveMap followed by LoadMap restores both room pointers: after the
\* load CurrentRoomID and PreviousRoomID are what they were at the save.
C18_PointersRestored ==
    LoadedSave =>
        /\ CurrentRoomID = saved.CurrentRoomID
        /\ PreviousRoomID = saved.PreviousRoomID

\* C19: a load that finds no usable file leaves the state untouched: a
\* missing file gives no error, an undecodable file gives an error, and in
\* both cases Graph and CurrentRoomID are as before the call.
C19_FailedLoadLeavesState ==
    (last.op = "LoadMap" /\ last.found \in {"missing", "garbage"}) =>
        /\ last.err = (last.found = "garbage")
        /\ Graph = pre.Graph
        /\ CurrentRoomID = pre.CurrentRoomID
        /\ ~panicked

\* a load hit an undecodable file while the mapper held rooms and a position
C19_Witness ==
    /\ last.op = "LoadMap"
    /\ last.found = "garbage"
    /\ last.err
    /\ pre.Graph.Rooms # << >>
    /\ CurrentRoomID # NoID

\* C20: ImportMap never overwrites an existing room: every room that was in
\* the graph before the import has the same record after it, and a room the
\* import added has an id that was new and the record of the file.
C20_ImportKeepsExistingRooms ==
    last.op = "ImportMap" =>
        /\ \A id \in DOMAIN pre.Graph.Rooms :
              /\ HasRoom(Graph, id)
              /\ Graph.Rooms[id] = pre.Graph.Rooms[id]
        /\ \A id \in DOMAIN Graph.Rooms \ DOMAIN pre.Graph.Rooms :
              /\ Imported
              /\ id \in DOMAIN ImportedRooms
              /\ Graph.Rooms[id] = ImportedRooms[id]

\* an import met a file with another record for a room the graph already
\* had, and with a room the graph did not have
C20_Witness ==
    /\ Imported
    /\ HasRoom(pre.Graph, TavernID)
    /\ TavernID \in DOMAIN ImportedRooms
    /\ ImportedRooms[TavernID] # pre.Graph.Rooms[TavernID]
    /\ Graph.Rooms[TavernID].Name = Tavern
    /\ HasRoom(Graph, CellarID) /\ ~HasRoom(pre.Graph, CellarID)

----------------------------------------------------------------------------
(* C21: imported exit links *)

\* the exits of the file just imported
ImportedExits == UnmarshalMapData(disk[last.path].doc).Graph.Exits

\* edge e of the flat list of g
HasEdge(g, e) == \E j \in 1..Len(g.Exits) : g.Exits[j] = e

\* C21: ImportMap merges exit links without replacing existing ones: every
\* edge (from, direction, to) of the edge list before the import is in the
\* edge list after it, with the same destination.
C21_ImportKeepsEdges ==
    last.op = "ImportMap" =>
        \A i \in 1..Len(pre.Graph.Exits) : HasEdge(Graph, pre.Graph.Exits[i])

----------------------------------------------------------------------------
(* C22: SaveMap and the mapper lock *)

\* C22: SaveMap does not hold the mapper lock during the disk write: when
\* the file is about to be written or has just been written, nobody holds
\* the mutex, so an OnRoomEntered or OnMovement call proceeds without
\* waiting.
C22_SaveWritesUnlocked ==
    saver.pc \in {"locked", "written"} => Unlocked

----------------------------------------------------------------------------
(* C23..C27: the room aggregate of the App *)

\* the last step was processOutput taking a line of the given kind
Took(kind) == last.op = "processOutput" /\ last.parsed.Type = kind

\* C23: a polling reader never sees a half-updated aggregate: when its
\* GetCurrentRoom call showed the room of the latest RoomTitle line, its
\* GetCurrentEntities call shows only items and mobs mentioned since that
\* line, never those of the room before.
C23_NoHalfUpdatedAggregate ==
    (last.op = "GetCurrentEntities" /\ last.titles > 0
       /\ watch.roomTitles = last.titles) =>
        watch.entities = [items |-> last.items, mobs |-> last.mobs]

\* C24: each RoomTitle line that arrives while an aggregate is open hands
\* that aggregate to OnRoomEntered exactly once: after the n-th title line
\* the mapper has resolved n - 1 rooms and stands in one of them.
C24_AggregateHandedOver ==
    last.titles > 1 =>
        /\ clock = last.titles - 1
        /\ CurrentRoomID # NoID
        /\ HasRoom(Graph, CurrentRoomID)

\* C25: a RoomDescription line is appended to the aggregate only if a title
\* has opened one: before the first title the aggregate stays absent and
\* GetCurrentRoom returns the empty map; with an open aggregate the text is
\* appended; no other kind of line changes the aggregate; a RoomTitle line
\* replaces it by one that holds the text of that line alone.
C25_DescriptionNeedsTitle ==
    /\ last.titles = 0 => app.currentRoom = NilRoom /\ CurrentRoomMap(app) = << >>
    /\ (last.op = "GetCurrentRoom" /\ watch.roomTitles = 0) => watch.room = << >>
    /\ Took("RoomDescription") =>
          /\ app.currentItems = last.pre.currentItems
          /\ app.currentMobs = last.pre.currentMobs
          /\ IF last.pre.currentRoom = NilRoom
             THEN app.currentRoom = NilRoom
             ELSE /\ app.currentRoom.RoomName = last.pre.currentRoom.RoomName
                  /\ app.currentRoom.Content =
                        last.pre.currentRoom.Content \o <<" ">> \o last.parsed.CleanText
    /\ (last.op = "processOutput"
          /\ last.parsed.Type \notin {"RoomTitle", "RoomDescription"}) =>
          app.currentRoom = last.pre.currentRoom
    /\ Took("RoomTitle") =>
          /\ app.currentRoom.RoomName = last.parsed.CleanText
          /\ app.currentRoom.Content = last.parsed.CleanText

\* a description line came before any title, then a title, then the same
\* description line: the aggregate holds the title and that text once
C25_Witness ==
    /\ Took("RoomDescription")
    /\ last.line = LineBusy
    /\ app.outputBuf = <<LineBusy, LineTavern, LineBusy>>
    /\ last.pre.currentRoom.Content = LineTavern
    /\ app.currentRoom.Content = LineTavern \o <<" ">> \o LineBusy

\* C26: item and mob mentions are appended only while an aggregate is open
\* and both lists are emptied by each RoomTitle line: GetCurrentEntities
\* returns exactly the mentions received since the most recent title, and
\* nothing before the first title.
C26_EntitiesSinceTitle ==
    (last.op = "GetCurrentEntities" /\ app.pc = "recv") =>
        watch.entities = [items |-> last.roomItems, mobs |-> last.roomMobs]

\* C27: the description of a room aggregate is the text of the
\* RoomDescription lines received after its title, and is empty when no such
\* line has come.
C27_DescriptionExcludesTitle ==
    (last.op = "GetCurrentRoom" /\ watch.room # << >>) =>
        watch.room.description = JoinWords(last.descs)

----------------------------------------------------------------------------
(* C28, C29: the line classifier *)

\* the tests of ParseLine on a cleaned line, in the order of the contract,
\* and the kind each one gives
Tests(c) == <<IsPrompt(c), IsExits(c), IsInventory(c), isRoomTitle(c), isSystemMessage(c)>>

Kinds == <<"Prompt", "Exits", "Inventory", "RoomTitle", "System">>

\* the tests the cleaned line c passes
Passed(c) == {i \in 1..Len(Kinds) : Tests(c)[i]}

\* C28: the first matching test wins: a non-blank line gets the kind of the
\* earliest test it passes among prompt, exits, inventory sentence,
\* room-title heuristic and system-message prefix, and RoomDescription if it
\* passes none; a short line with a system-message prefix and no terminal
\* punctuation is a RoomTitle.
C28_FirstMatchWins ==
    last.op = "processOutput" =>
        LET c == last.parsed.CleanText
        IN  /\ TrimSpace(c) # << >> =>
                  last.parsed.Type = IF Passed(c) = {} THEN "RoomDescription"
                                     ELSE Kinds[MinOr(Passed(c), 0)]
            /\ last.line = LineHungry => last.parsed.Type = "RoomTitle"
            /\ last.line = LineHungryStop => last.parsed.Type = "System"

\* a line that passes the room-title and the system-message test was taken
C28_Witness ==
    /\ last.op = "processOutput"
    /\ last.line = LineHungry
    /\ Passed(last.parsed.CleanText) = {4, 5}
    /\ last.parsed.Type = "RoomTitle"

\* C29: a line matching the exits marker has kind Exits and, as exit list,
\* the text after "Exits:" split on commas, each token trimmed, the empty
\* tokens dropped, in the original order.
C29_ExitsSplitTrimmed ==
    (last.op = "processOutput" /\ IsExits(last.parsed.CleanText)) =>
        LET tokens == Split(AfterExitMarker(last.parsed.CleanText), ",")
            kept == {i \in 1..Len(tokens) : TrimSpace(tokens[i]) # << >>}
            exits == last.parsed.Exits
        IN  /\ last.parsed.Type = "Exits"
            /\ Len(exits) = Cardinality(kept)
            /\ \A n \in 1..Len(exits) :
                  \E i \in kept :
                     /\ Cardinality({j \in kept : j <= i}) = n
                     /\ exits[n] = TrimSpace(tokens[i])
            /\ last.line = LineExits =>
                  exits = <<<<"n", "o", "r", "t", "h">>, <<"e", "a", "s", "t">>>>

\* a line with empty and padded tokens gave its two exits
C29_Witness ==
    /\ last.op = "processOutput"
    /\ last.line = LineExitsRagged
    /\ last.parsed.Type = "Exits"
    /\ last.parsed.Exits = <<<<"n", "o", "r", "t", "h">>, <<"e", "a", "s", "t">>>>

----------------------------------------------------------------------------
(* C30: the line stream *)

\* the number of the server line with text t
LineNo(t) == CHOOSE k \in 1..MaxServerLines : <<ToString(k)>> = t

\* the line numbers of a sequence of lines
Numbers(ch) == [i \in 1..Len(ch) |-> LineNo(ch[i])]

Increasing(ns) == \A i, j \in 1..Len(ns) : i < j => ns[i] < ns[j]

\* C30: a full line buffer never blocks the reader: readLoop can always
\* read the next line; with outputChan full it drops the line just read and
\* goes on, otherwise it queues the line; the lines the consumer gets, and
\* those still queued, are in the order the server sent them.
C30_FullBufferDropsNewest ==
    /\ Len(client.outputChan) <= OutputChanCap
    /\ client.read < MaxServerLines => ENABLED readLoop
    /\ Increasing(Numbers(client.taken \o client.outputChan))
    /\ (last.op = "readLoop" /\ last.line # << >>) =>
          /\ client.read = last.pre.read + 1
          /\ client.taken = last.pre.taken
          /\ client.outputChan = IF last.full THEN last.pre.outputChan
                                 ELSE Append(last.pre.outputChan, last.line)

\* a line was dropped at a full buffer, the consumer took a line, and the
\* next line of the server was queued behind the older ones
C30_Witness ==
    /\ last.op = "readLoop"
    /\ ~last.full
    /\ Len(client.outputChan) = OutputChanCap
    /\ client.taken # << >>
    /\ LineNo(last.line) = MaxServerLines
    /\ \E k \in 1..(MaxServerLines - 1) :
          /\ k # client.blank
          /\ \A i \in 1..Len(client.outputChan) : LineNo(client.outputChan[i]) # k
          /\ \A i \in 1..Len(client.taken) : LineNo(client.taken[i]) # k

----------------------------------------------------------------------------
(* C31..C35: pointers, self links, spellings, coordinates *)

\* C31: after every OnRoomEntered call that returns id, CurrentRoomID = id
\* and PreviousRoomID is the value CurrentRoomID had when the call began,
\* whether the room was known or new.
C31_PointersAdvance ==
    Entered =>
        /\ CurrentRoomID = last.ret
        /\ PreviousRoomID = pre.CurrentRoomID

\* a known room was entered from another room, with an older previous room
C31_Witness ==
    /\ Entered
    /\ WasKnown
    /\ pre.CurrentRoomID \notin {NoID, last.ret}
    /\ pre.PreviousRoomID # pre.CurrentRoomID
    /\ PreviousRoomID = pre.CurrentRoomID

\* C32: when OnRoomEntered resolves to the room that is already current
\* while a movement is pending, no exit of that room is created or changed,
\* and no room has an exit that leads to the room itself.
C32_NoSelfLink ==
    /\ (Entered /\ Pending /\ pre.CurrentRoomID = last.ret) =>
          /\ Resolved.Exits = pre.Graph.Rooms[last.ret].Exits
          /\ Graph.Exits = pre.Graph.Exits
    /\ \A id \in DOMAIN Graph.Rooms :
          \A d \in DOMAIN Graph.Rooms[id].Exits : Graph.Rooms[id].Exits[d] # id

\* the spellings d and e denote the same direction
SameDirection(d, e) ==
    /\ d \in DOMAIN DirectionOffsets
    /\ e \in DOMAIN DirectionOffsets
    /\ DirectionOffsets[d] = DirectionOffsets[e]

\* C33: after a transition out of room A into another room, recorded under
\* the pending direction D, A has no exit under another spelling of D that is still
\* unexplored.
C33_ListedExitResolved ==
    (Entered /\ HadCurrent /\ Pending /\ pre.CurrentRoomID # last.ret
       /\ HasExit(Graph, pre.CurrentRoomID, PendingDir, last.ret)) =>
        \A d \in DOMAIN Graph.Rooms[pre.CurrentRoomID].Exits :
            (d # PendingDir /\ SameDirection(d, PendingDir)) =>
                Graph.Rooms[pre.CurrentRoomID].Exits[d] # NoID

\* C34: the coordinates of a room never change once it exists: a step of
\* OnMovement, OnRoomEntered or ImportMap keeps every room of the graph and
\* its (X, Y, Z).
C34_CoordinatesFixed ==
    [][last'.op \in {"OnMovement", "OnRoomEntered", "ImportMap"}
          => \A id \in DOMAIN Graph.Rooms :
                /\ HasRoom(Graph', id)
                /\ Coords(Graph'.Rooms[id]) = Coords(Graph.Rooms[id])]_vars

\* an import met a file that places a known room elsewhere, and the room is
\* where it was
C34_Witness ==
    /\ Imported
    /\ HasRoom(pre.Graph, TavernID)
    /\ TavernID \in DOMAIN ImportedRooms
    /\ Coords(ImportedRooms[TavernID]) # Coords(pre.Graph.Rooms[TavernID])
    /\ Coords(Graph.Rooms[TavernID]) = Coords(pre.Graph.Rooms[TavernID])

\* C35: while the mapper runs, CurrentRoomID and PreviousRoomID are each
\* empty or the id of a room of the graph.
C35_PointersInGraph ==
    Running =>
        /\ CurrentRoomID = NoID \/ HasRoom(Graph, CurrentRoomID)
        /\ PreviousRoomID = NoID \/ HasRoom(Graph, PreviousRoomID)

----------------------------------------------------------------------------
(* C37: loading a document without a graph *)

\* the document the last LoadMap decoded
LoadedDoc == disk[last.path].doc

\* the document has no graph, or a graph without rooms
Graphless(doc) == Unusable(UnmarshalMapData(doc).Graph)

\* C37: no call faults; a LoadMap that returns without an error leaves a
\* graph with a rooms map; a document that decodes but has no graph, or a
\* graph without rooms, gives an error and leaves the graph as it was.
C37_LoadLeavesUsableGraph ==
    /\ Running
    /\ (last.op = "LoadMap" /\ ~last.err) => ~Unusable(Graph)
    /\ (last.op = "LoadMap" /\ last.found = "json" /\ Graphless(LoadedDoc)) =>
          last.err /\ Graph = pre.Graph

----------------------------------------------------------------------------
(* C36: the graph a reader sees *)

----------------------------------------------------------------------------
(* C38, C39: the life of a connection *)

LatestLoops == client.loops[Len(client.loops)]

\* C38: closeChan is closed at most once, and after a Connect that follows a
\* Disconnect the client is connected and the read loop and the write loop
\* of that Connect run, until the next Disconnect or loss of the connection.
C38_ReconnectWorks ==
    /\ client.closes <= 1
    /\ client.event = "Connect" /\ client.disconnects > 0 =>
         /\ client.connected
         /\ LatestLoops.read = "running"
         /\ LatestLoops.write = "running"

\* connection i is lost: its read loop has ended on a read error and has
\* set connected to false
ConnectionLost(i) ==
    /\ i <= Len(client.loops)
    /\ client.loops[i].lost
    /\ client.loops[i].read = "done"

writeLoopDone(i) == i <= Len(client.loops) /\ client.loops[i].write = "done"

\* C39: once a connection is lost, the write loop of that connection
\* eventually terminates.
C39_WriteLoopTerminates ==
    \A i \in 1..MaxConnects : ConnectionLost(i) ~> writeLoopDone(i)

====
